---------------------------- MODULE Spec2Model ----------------------------
(***************************************************************************)
(* A model of IDiskRemote (Disks/IDiskRemote.cpp): the metadata record of  *)
(* a file kept on a remote object store, its text format, the operations   *)
(* of the disk that create, link, move and remove such records, and the    *)
(* ledger of reserved space with its reservation handles.                  *)
(*                                                                         *)
(* The specifications share the variables:                                 *)
(*   SpecCodec  - Metadata::save / Metadata::Metadata (load) / addObject   *)
(*                on one in-memory record and one metadata file;           *)
(*   Spec       - the disk's file operations, one call at a time, on a     *)
(*                small local file system and a remote object store;       *)
(*   SpecLinks  - the same disk, restricted to records that are created,   *)
(*                written, hard-linked to fresh paths and removed;         *)
(*   SpecLedger - tryReserve / reserve / update / ~DiskRemoteReservation   *)
(*                run by several threads, one statement at a time;         *)
(*   SpecOps    - createFile, createHardLink, moveFile, replaceFile,       *)
(*                setReadOnly and removeFile on intact records;            *)
(*   SpecAppend - a record made in create mode and addObject calls on it;  *)
(*   SpecLegacy - files of the older versions, loaded and saved again;     *)
(*   SpecDamaged - damaged files and their load;                           *)
(*   SpecWalk   - removeRecursive / removeSharedRecursive on a local tree  *)
(*                that may hold symbolic links to its own directories,     *)
(*                one step of the recursion at a time (SpecWalkFair: the   *)
(*                same, the call being run to its end);                    *)
(*   SpecReserve - SpecLedger without the bare tryReserve;                 *)
(*   SpecFixed  - tryReserve / reserve of bytes > 0 and releases against a *)
(*                capacity that does not change;                           *)
(*   SpecRace   - removeFile and createHardLink, one statement at a time,  *)
(*                by two threads that never share a local path;            *)
(*   SpecSteps  - the same statements by one caller, whose call may stop   *)
(*                between any two of them;                                 *)
(*   SpecTree   - removeRecursive / removeSharedRecursive on a tree        *)
(*                without links whose files hold metadata records          *)
(*                (SpecTreeFair: the same, the call being run to its end). *)
(***************************************************************************)
EXTENDS Integers, Sequences, FiniteSets, TLC

VARIABLES
    \* ---- SpecCodec
    mem,              \* the in-memory Metadata object (or the error of its load)
    file,             \* the bytes of the metadata file, a sequence of characters
    codecLast,        \* the last codec call and the in-memory record it started from
    \* ---- Spec
    fs,               \* local path -> "absent" | "dir" | inode number
    inode,            \* inode number -> the bytes of the metadata file (<<>> when free)
    remote,           \* the set of object paths present in the remote store
    written,          \* how many remote objects were ever created
    last,             \* the last disk operation: arguments, outcome, the state before
                      \* (SpecRace, SpecSteps, SpecTree: what has happened so far)
    \* ---- SpecLedger
    reserved_bytes,   \* IDiskRemote::reserved_bytes
    reservation_count,\* IDiskRemote::reservation_count
    available_space,  \* what getAvailableSpace() answers at this moment
    mutex,            \* IDiskRemote::reservation_mutex: its owner, or "free"
    th,               \* per thread: program counter, arguments, locals, its handle
                      \* (SpecRace, SpecSteps: the threads of the disk calls)
    serial,           \* the counters of the serial execution of the same calls
    \* ---- SpecWalk
    walk              \* a recursive removal: the local tree, the call stack, the outcome

codecVars == <<mem, file, codecLast>>
diskVars == <<fs, inode, remote, written, last>>
ledgerVars == <<reserved_bytes, reservation_count, available_space, mutex, th, serial>>
walkVars == <<walk>>
vars == <<mem, file, codecLast, fs, inode, remote, written, last,
          reserved_bytes, reservation_count, available_space, mutex, th, serial, walk>>

-----------------------------------------------------------------------------
(***************************************************************************)
(* The metadata record and its text format                                 *)
(***************************************************************************)

VERSION_ABSOLUTE_PATHS == 1
VERSION_RELATIVE_PATHS == 2
VERSION_READ_ONLY_FLAG == 3

\* The error code every failed load carries.
UNKNOWN_FORMAT == "UNKNOWN_FORMAT"

DigitChars == <<"0", "1", "2", "3", "4", "5", "6", "7", "8", "9">>

Digits == {DigitChars[d] : d \in 1..10}

IsDigit(c) == c \in Digits

\* The value of each digit character.
DigitValues == [c \in Digits |-> (CHOOSE d \in 1..10 : DigitChars[d] = c) - 1]

DigitValue(c) == DigitValues[c]

\* writeIntText: the decimal digits of n, most significant first.
RECURSIVE writeIntText(_)
writeIntText(n) ==
    IF n < 10 THEN <<DigitChars[n + 1]>>
    ELSE writeIntText(n \div 10) \o <<DigitChars[(n % 10) + 1]>>

\* writeBoolText: '1' or '0'.
writeBoolText(b) == IF b THEN <<"1">> ELSE <<"0">>

\* writeEscapedString, one character: tab, newline and backslash are written
\* as a backslash and a letter, everything else as itself.
EscapeChar(c) ==
    CASE c = "\t" -> <<"\\", "t">>
      [] c = "\n" -> <<"\\", "n">>
      [] c = "\\" -> <<"\\", "\\">>
      [] OTHER    -> <<c>>

RECURSIVE writeEscapedString(_)
writeEscapedString(s) ==
    IF s = <<>> THEN <<>>
    ELSE EscapeChar(Head(s)) \o writeEscapedString(Tail(s))

\* The reading helpers answer [ok, val, pos]: pos is the next unread position.
Fail(i) == [ok |-> FALSE, val |-> 0, pos |-> i]

\* readIntText: end of input is an error; otherwise the longest run of digits
\* is the number, and no digit at all reads as 0 without moving.
RECURSIVE ReadDigits(_, _, _)
ReadDigits(t, i, acc) ==
    IF i <= Len(t) /\ IsDigit(t[i])
    THEN ReadDigits(t, i + 1, acc * 10 + DigitValue(t[i]))
    ELSE [ok |-> TRUE, val |-> acc, pos |-> i]

readIntText(t, i) == IF i > Len(t) THEN Fail(i) ELSE ReadDigits(t, i, 0)

\* assertChar: the next character must be c.
assertChar(c, t, i) ==
    IF i <= Len(t) /\ t[i] = c THEN [ok |-> TRUE, val |-> 0, pos |-> i + 1]
    ELSE Fail(i)

\* readBoolText: one character, true unless it is '0'.
readBoolText(t, i) ==
    IF i > Len(t) THEN Fail(i)
    ELSE [ok |-> TRUE, val |-> (t[i] # "0"), pos |-> i + 1]

\* The character a backslash sequence stands for; a letter that names no
\* sequence is kept with its backslash.
UnescapeChar(c) ==
    CASE c = "t"  -> <<"\t">>
      [] c = "n"  -> <<"\n">>
      [] c = "\\" -> <<"\\">>
      [] c = "/"  -> <<"/">>
      [] OTHER    -> <<"\\", c>>

\* readEscapedString: up to the next raw tab or newline (or the end of input);
\* a backslash with nothing after it is an error.
RECURSIVE readEscapedString(_, _, _)
readEscapedString(t, i, acc) ==
    IF i > Len(t) \/ t[i] = "\t" \/ t[i] = "\n"
    THEN [ok |-> TRUE, val |-> acc, pos |-> i]
    ELSE IF t[i] = "\\"
         THEN IF i + 1 > Len(t) THEN [ok |-> FALSE, val |-> acc, pos |-> i]
              ELSE readEscapedString(t, i + 2, acc \o UnescapeChar(t[i + 1]))
         ELSE readEscapedString(t, i + 1, acc \o <<t[i]>>)

starts_with(s, prefix) ==
    /\ Len(prefix) <= Len(s)
    /\ \A k \in 1..Len(prefix) : s[k] = prefix[k]

substr(s, n) == SubSeq(s, n + 1, Len(s))

\* An in-memory Metadata object. ok = FALSE stands for the exception the
\* constructor threw, err its code, nested the code of the exception it wraps
\* ("" when it wraps none).
Record(objs, total, rc, ro) ==
    [ok |-> TRUE, err |-> "", nested |-> "",
     objs |-> objs, total |-> total, rc |-> rc, ro |-> ro]

LoadError(code) ==
    [ok |-> FALSE, err |-> code, nested |-> "",
     objs |-> <<>>, total |-> 0, rc |-> 0, ro |-> FALSE]

\* The codes of the exceptions the reading helpers and the file open throw.
ATTEMPT_TO_READ_AFTER_EOF == "ATTEMPT_TO_READ_AFTER_EOF"
CANNOT_PARSE_INPUT_ASSERTION_FAILED == "CANNOT_PARSE_INPUT_ASSERTION_FAILED"
CANNOT_PARSE_ESCAPE_SEQUENCE == "CANNOT_PARSE_ESCAPE_SEQUENCE"
CANNOT_OPEN_FILE == "CANNOT_OPEN_FILE"

\* Metadata::Metadata(..., create = true): the empty record.
createMeta == Record(<<>>, 0, 0, FALSE)

\* The tail of the load: ref_count, then the read-only flag when the version has it.
ParseTail(t, i, version, objs, total) ==
    LET rc == readIntText(t, i)
        nl == assertChar("\n", t, rc.pos)
    IN  IF ~rc.ok THEN LoadError(ATTEMPT_TO_READ_AFTER_EOF)
        ELSE IF ~nl.ok THEN LoadError(CANNOT_PARSE_INPUT_ASSERTION_FAILED)
        ELSE IF version >= VERSION_READ_ONLY_FLAG
             THEN LET ro  == readBoolText(t, nl.pos)
                      nl2 == assertChar("\n", t, ro.pos)
                  IN  IF ~ro.ok THEN LoadError(ATTEMPT_TO_READ_AFTER_EOF)
                      ELSE IF ~nl2.ok THEN LoadError(CANNOT_PARSE_INPUT_ASSERTION_FAILED)
                      ELSE Record(objs, total, rc.val, ro.val)
             ELSE Record(objs, total, rc.val, FALSE)

UnstrippedPath(path, root) == path

\* Line 79: remote_fs_object_path.substr(remote_fs_root_path.size()).
StrippedPath(path, root) == substr(path, Len(root))

\* The loop over the object lines: n lines are still to be read.
RECURSIVE ParseObjects(_, _, _, _, _, _, _)
ParseObjects(t, i, n, version, root, objs, total) ==
    IF n = 0 THEN ParseTail(t, i, version, objs, total)
    ELSE
      LET sz  == readIntText(t, i)
          tab == assertChar("\t", t, sz.pos)
          str == readEscapedString(t, tab.pos, <<>>)
          nl  == assertChar("\n", t, str.pos)
      IN  IF ~sz.ok THEN LoadError(ATTEMPT_TO_READ_AFTER_EOF)
          ELSE IF ~tab.ok THEN LoadError(CANNOT_PARSE_INPUT_ASSERTION_FAILED)
          ELSE IF ~str.ok THEN LoadError(CANNOT_PARSE_ESCAPE_SEQUENCE)
          ELSE IF version = VERSION_ABSOLUTE_PATHS /\ ~starts_with(str.val, root)
               THEN LoadError(UNKNOWN_FORMAT)
          ELSE IF ~nl.ok THEN LoadError(CANNOT_PARSE_INPUT_ASSERTION_FAILED)
          ELSE ParseObjects(t, nl.pos, n - 1, version, root,
                            Append(objs,
                                   [path |-> IF version = VERSION_ABSOLUTE_PATHS
                                             THEN StrippedPath(str.val, root)
                                             ELSE str.val,
                                    size |-> sz.val]),
                            total)

VersionNeverRejected(version) == FALSE

\* Line 51: the version is outside the versions this code reads.
VersionRejected(version) ==
    version < VERSION_ABSOLUTE_PATHS \/ version > VERSION_READ_ONLY_FLAG

\* The try block, lines 45-92, on the bytes t of the file: the record, or the
\* exception as it was thrown.
TryLoad(t, root) ==
    LET ver == readIntText(t, 1)
        nl1 == assertChar("\n", t, ver.pos)
    IN  IF ~ver.ok THEN LoadError(ATTEMPT_TO_READ_AFTER_EOF)
        ELSE IF ~nl1.ok THEN LoadError(CANNOT_PARSE_INPUT_ASSERTION_FAILED)
        ELSE IF VersionRejected(ver.val) THEN LoadError(UNKNOWN_FORMAT)
        ELSE
          LET cnt == readIntText(t, nl1.pos)
              tab == assertChar("\t", t, cnt.pos)
              tot == readIntText(t, tab.pos)
              nl2 == assertChar("\n", t, tot.pos)
          IN  IF ~cnt.ok THEN LoadError(ATTEMPT_TO_READ_AFTER_EOF)
              ELSE IF ~tab.ok THEN LoadError(CANNOT_PARSE_INPUT_ASSERTION_FAILED)
              ELSE IF ~tot.ok THEN LoadError(ATTEMPT_TO_READ_AFTER_EOF)
              ELSE IF ~nl2.ok THEN LoadError(CANNOT_PARSE_INPUT_ASSERTION_FAILED)
              ELSE ParseObjects(t, nl2.pos, cnt.val, ver.val, root, <<>>, tot.val)

\* The catch block, lines 94-100: an UNKNOWN_FORMAT exception is thrown on as
\* it is, any other one is wrapped into a new UNKNOWN_FORMAT exception.
CatchLoad(raw) ==
    IF raw.ok \/ raw.err = UNKNOWN_FORMAT THEN raw
    ELSE [LoadError(UNKNOWN_FORMAT) EXCEPT !.nested = raw.err]

\* Metadata::Metadata(..., create = false) on the bytes t of the file.
LoadMetadata(t, root) == CatchLoad(TryLoad(t, root))

\* The object lines of save.
RECURSIVE SaveObjects(_)
SaveObjects(objs) ==
    IF objs = <<>> THEN <<>>
    ELSE writeIntText(Head(objs).size) \o <<"\t">>
         \o writeEscapedString(Head(objs).path) \o <<"\n">>
         \o SaveObjects(Tail(objs))

\* The version number save writes on the first line.
SavedVersion == VERSION_RELATIVE_PATHS

\* Metadata::save: the bytes written for the record m.
SaveMetadata(m) ==
    writeIntText(SavedVersion) \o <<"\n">>
    \o writeIntText(Len(m.objs)) \o <<"\t">> \o writeIntText(m.total) \o <<"\n">>
    \o SaveObjects(m.objs)
    \o writeIntText(m.rc) \o <<"\n">>
    \o writeBoolText(m.ro) \o <<"\n">>

\* Bound: the largest value of total_size, an unsigned counter that wraps
\* above it.
TotalMax == 63
TotalModulus == TotalMax + 1

addObjectUncounted(m, path, size) ==
    [m EXCEPT !.objs = Append(m.objs, [path |-> path, size |-> size])]

\* Metadata::addObject.
addObject(m, path, size) ==
    [m EXCEPT !.total = (m.total + size) % TotalModulus,
              !.objs = Append(m.objs, [path |-> path, size |-> size])]


-----------------------------------------------------------------------------
(***************************************************************************)
(* SpecCodec: one in-memory record, one metadata file                      *)
(***************************************************************************)

\* Bounds of the records drawn: objects per record, and the values tried.
MaxObjects == 2

\* The disk's remote_fs_root_path.
remote_fs_root_path == <<"r", "/">>

ObjectPaths == {<<"p">>, <<"p", "/", "p">>, <<"\t", "p">>, <<"\\", "\n">>}
ObjectSizes == {0, 7, 12}
RefCounts == {0, 1, 10}

ObjectLists ==
    UNION {[1..n -> [path : ObjectPaths, size : ObjectSizes]] : n \in 0..MaxObjects}

RECURSIVE SumSizes(_)
SumSizes(objs) == IF objs = <<>> THEN 0 ELSE Head(objs).size + SumSizes(Tail(objs))

\* The valid records: total_size is the sum of the object sizes.
ValidRecords ==
    {Record(objs, SumSizes(objs), rc, ro) : objs \in ObjectLists, rc \in RefCounts, ro \in BOOLEAN}

NoCall == [op |-> "none", saved |-> createMeta]

\* metadata.save() of the in-memory record.
CodecSave ==
    /\ mem.ok
    /\ file' = SaveMetadata(mem)
    /\ codecLast' = [op |-> "save", saved |-> mem]
    /\ UNCHANGED mem

\* readMeta: a new Metadata object loaded from the file.
CodecLoad ==
    /\ codecLast.op # "none"
    /\ mem' = LoadMetadata(file, remote_fs_root_path)
    /\ codecLast' = [codecLast EXCEPT !.op = "load"]
    /\ UNCHANGED file

\* metadata.addObject(path, size) on the in-memory record.
CodecAddObject(path, size) ==
    /\ mem.ok
    /\ Len(mem.objs) < MaxObjects
    /\ mem' = addObject(mem, path, size)
    /\ codecLast' = [codecLast EXCEPT !.op = IF codecLast.op = "none" THEN "none" ELSE "add"]
    /\ UNCHANGED file

DiskIdle ==
    /\ fs = <<>> /\ inode = <<>> /\ remote = {} /\ written = 0 /\ last = <<>>

LedgerIdle ==
    /\ reserved_bytes = 0 /\ reservation_count = 0 /\ available_space = 0
    /\ mutex = "free" /\ th = <<>> /\ serial = <<>>

CodecIdle == mem = createMeta /\ file = <<>> /\ codecLast = NoCall

WalkIdle == walk = <<>>

InitCodec ==
    /\ mem \in ValidRecords
    /\ file = <<>>
    /\ codecLast = NoCall
    /\ DiskIdle
    /\ LedgerIdle
    /\ WalkIdle

NextCodec ==
    \/ CodecSave /\ UNCHANGED <<diskVars, ledgerVars, walkVars>>
    \/ CodecLoad /\ UNCHANGED <<diskVars, ledgerVars, walkVars>>
    \/ \E path \in ObjectPaths, size \in ObjectSizes :
          CodecAddObject(path, size) /\ UNCHANGED <<diskVars, ledgerVars, walkVars>>

SpecCodec == InitCodec /\ [][NextCodec]_vars

\* C5: save followed by a load of the same path yields a record with the same
\* object list, total_size, ref_count and read_only as the record saved.
C5_RoundTrip ==
    codecLast.op = "load" =>
        /\ mem.ok
        /\ mem.objs = codecLast.saved.objs
        /\ mem.total = codecLast.saved.total
        /\ mem.rc = codecLast.saved.rc
        /\ mem.ro = codecLast.saved.ro

\* What the code does keep over save and load: everything but read_only,
\* which comes back false.
RoundTripButReadOnly ==
    codecLast.op = "load" =>
        /\ mem.ok
        /\ mem.objs = codecLast.saved.objs
        /\ mem.total = codecLast.saved.total
        /\ mem.rc = codecLast.saved.rc
        /\ mem.ro = FALSE

-----------------------------------------------------------------------------
(***************************************************************************)
(* Spec: the disk's file operations on the local metadata directory        *)
(***************************************************************************)

\* The local paths of the model, in the order inodes are numbered by: three
\* names, and the name replaceFile moves the file at "a" aside to.
PathOrder == <<"a", "b", "c", "a.old">>
AllPaths == {PathOrder[k] : k \in 1..Len(PathOrder)}

\* replaceFile, line 318: tmp_path = to_path + ".old".
TmpPath(to_path) == to_path \o ".old"

\* The paths callers name in Spec and SpecLinks: those that are no temporary name.
Paths == {p \in AllPaths : \A q \in AllPaths : p # TmpPath(q)}

\* The paths at which a directory is made.
DirPaths == {"c"}
PathIndex(p) == CHOOSE k \in 1..Len(PathOrder) : PathOrder[k] = p

\* Bounds: remote objects ever written, and the largest ref_count a link makes.
MaxWritten == 2
MaxRefCount == 2

\* Bound: the metadata files (inodes) that exist at one time.
MaxFiles == 2

\* The size of the k-th object written.
ObjectSize(k) == IF k % 2 = 0 THEN 12 ELSE 3

\* The remote path of the k-th object written (the second has a tab in it).
ObjectPath(k) == IF k % 2 = 0 THEN <<"\t">> \o writeIntText(k) ELSE <<"p">> \o writeIntText(k)

Inodes == 1..Cardinality(AllPaths)

AbsentEntry == [kind |-> "absent", ino |-> 0]
DirEntry == [kind |-> "dir", ino |-> 0]
FileEntry(i) == [kind |-> "file", ino |-> i]

\* The state a disk operation works on: d.fs, d.inode, d.remote.
DiskState(f, ino, rem) == [fs |-> f, inode |-> ino, remote |-> rem]

\* The paths that are hard links of inode i.
LinksOf(f, i) == {q \in AllPaths : f[q].kind = "file" /\ f[q].ino = i}

\* Poco::File::exists / isFile / isDirectory.
exists(d, p) == d.fs[p].kind # "absent"
isFile(d, p) == d.fs[p].kind = "file"
isDirectory(d, p) == d.fs[p].kind = "dir"

\* The lowest inode number no path uses.
FreeInode(d) == CHOOSE i \in Inodes : LinksOf(d.fs, i) = {} /\ \A j \in 1..(i - 1) : LinksOf(d.fs, j) # {}

\* Poco::File::remove on a file: the path goes, and the inode with its last link.
Unlink(d, p) ==
    LET i == d.fs[p].ino
        f == [d.fs EXCEPT ![p] = AbsentEntry]
    IN  [d EXCEPT !.fs = f,
                  !.inode = IF LinksOf(f, i) = {} THEN [d.inode EXCEPT ![i] = <<>>] ELSE d.inode]

\* WriteBufferFromFile(path) with O_CREAT | O_TRUNC, then the bytes: an existing
\* file is overwritten in place (every hard link sees it), a missing one is created.
WriteFileBytes(d, p, bytes) ==
    IF isFile(d, p) THEN [d EXCEPT !.inode[d.fs[p].ino] = bytes]
    ELSE LET i == FreeInode(d)
         IN  [d EXCEPT !.fs[p] = FileEntry(i), !.inode[i] = bytes]

\* IDiskRemote::readMeta: a path that is no file cannot be opened, which the
\* constructor reports like any other failure of the load.
readMeta(d, p) ==
    IF isFile(d, p) THEN LoadMetadata(d.inode[d.fs[p].ino], remote_fs_root_path)
    ELSE CatchLoad(LoadError(CANNOT_OPEN_FILE))

\* The outcome of a handler: the state it leaves, the error it threw ("" for
\* none), the remote deletes it issued in order, and whether it logged a warning.
Outcome(d, err, deletes, warned) ==
    [d |-> d, err |-> err, deletes |-> deletes, warned |-> warned]

Done(d) == Outcome(d, "", <<>>, FALSE)
Thrown(d, err) == Outcome(d, err, <<>>, FALSE)

RECURSIVE PathsOf(_)
PathsOf(objs) == IF objs = <<>> THEN <<>> ELSE <<Head(objs).path>> \o PathsOf(Tail(objs))

SeqRange(s) == {s[k] : k \in 1..Len(s)}

\* removeFromRemoteFS(metadata): one delete per listed object, in order; the
\* first nOk of them succeed and the next one, if any, throws.
removeFromRemoteFS(d, m, nOk) ==
    LET all == PathsOf(m.objs)
        n == IF nOk < Len(all) THEN nOk ELSE Len(all)
        issued == SubSeq(all, 1, IF n < Len(all) THEN n + 1 ELSE n)
    IN  Outcome([d EXCEPT !.remote = d.remote \ SeqRange(SubSeq(all, 1, n))],
                IF n < Len(all) THEN "REMOTE_ERROR" ELSE "",
                issued, FALSE)

AlwaysSoleReference(m) == TRUE

\* removeMeta, line 168: the branch that treats the record as the sole reference.
IsSoleReference(m) == m.rc = 0

DeletesRemoteAlways(keep_in_remote_fs) == TRUE

\* removeMeta, line 172: whether the remote objects are deleted.
DeletesRemote(keep_in_remote_fs) == ~keep_in_remote_fs

SameRefCount(m) == m

\* removeMeta, line 177: --metadata.ref_count.
DecrementedRefCount(m) == [m EXCEPT !.rc = m.rc - 1]

IsAnyError(err) == err # ""

\* removeMeta, line 185: the errors the handler swallows.
IsSwallowed(err) == err = UNKNOWN_FORMAT

\* file.remove() as a call that can throw: the path must exist.
RemoveLocal(d, p) == IF exists(d, p) THEN Done(Unlink(d, p)) ELSE Thrown(d, "FILE_NOT_FOUND")

\* removeMeta, lines 163-181: the body of the try block.
removeMetaTry(d, p, keep_in_remote_fs, nOk) ==
    LET m == readMeta(d, p)
    IN  IF ~m.ok THEN Thrown(d, m.err)
        ELSE IF IsSoleReference(m)
        THEN IF DeletesRemote(keep_in_remote_fs)
             THEN removeFromRemoteFS(Unlink(d, p), m, nOk)
             ELSE Done(Unlink(d, p))
        ELSE Done(Unlink(WriteFileBytes(d, p, SaveMetadata(DecrementedRefCount(m))), p))

\* removeMeta, lines 182-197: the catch block, given what the try block did.
removeMetaCatch(out, p) ==
    IF out.err = "" THEN out
    ELSE IF IsSwallowed(out.err)
         THEN LET rm == RemoveLocal(out.d, p)
              IN  Outcome(rm.d, rm.err, out.deletes, TRUE)
         ELSE out

RefusedNever(d, p) == FALSE

\* removeMeta, line 160: the path is refused when it is no regular file.
RefusedAsDirectory(d, p) == ~isFile(d, p)

\* IDiskRemote::removeMeta(path, keep_in_remote_fs).
removeMeta(d, p, keep_in_remote_fs, nOk) ==
    IF ~exists(d, p) THEN Thrown(d, "FILE_NOT_FOUND")
    ELSE IF RefusedAsDirectory(d, p) THEN Thrown(d, "CANNOT_DELETE_DIRECTORY")
    ELSE removeMetaCatch(removeMetaTry(d, p, keep_in_remote_fs, nOk), p)

UnchangedRefCount(m) == m

\* createHardLink, line 436: ++src.ref_count.
IncrementedRefCount(m) == [m EXCEPT !.rc = m.rc + 1]

\* DB::createHardLink(src, dst): link(2); an existing destination is accepted
\* when it already is the same inode.
createHardLinkFS(d, src, dst) ==
    IF ~exists(d, dst) THEN Done([d EXCEPT !.fs[dst] = d.fs[src]])
    ELSE IF isFile(d, dst) /\ d.fs[dst].ino = d.fs[src].ino THEN Done(d)
    ELSE Thrown(d, "CANNOT_LINK")

\* IDiskRemote::createHardLink(src_path, dst_path).
createHardLink(d, src, dst) ==
    LET m == readMeta(d, src)
    IN  IF ~m.ok THEN Thrown(d, m.err)
        ELSE createHardLinkFS(WriteFileBytes(d, src, SaveMetadata(IncrementedRefCount(m))), src, dst)

\* IDiskRemote::createFile(path).
createFile(d, p) ==
    IF isDirectory(d, p) THEN Thrown(d, "CANNOT_OPEN_FILE")
    ELSE Done(WriteFileBytes(d, p, SaveMetadata(createMeta)))

MoveNeverRefused(d, to) == FALSE

\* moveFile, line 307: the move is refused when the destination exists.
MoveRefused(d, to) == exists(d, to)

\* IDiskRemote::moveFile(from_path, to_path).
moveFile(d, from, to) ==
    IF MoveRefused(d, to) THEN Thrown(d, "FILE_ALREADY_EXISTS")
    ELSE IF ~exists(d, from) THEN Thrown(d, "FILE_NOT_FOUND")
    ELSE Done([d EXCEPT !.fs[to] = d.fs[from], !.fs[from] = AbsentEntry])

\* IDiskRemote::setReadOnly(path).
setReadOnly(d, p) ==
    LET m == readMeta(d, p)
    IN  IF ~m.ok THEN Thrown(d, m.err)
        ELSE Done(WriteFileBytes(d, p, SaveMetadata([m EXCEPT !.ro = TRUE])))

\* IDiskRemote::createDirectory(path).
createDirectory(d, p) ==
    IF isFile(d, p) THEN Thrown(d, "FILE_ALREADY_EXISTS")
    ELSE Done([d EXCEPT !.fs[p] = DirEntry])

\* A writer appending one object to the file at p: the object is put to the
\* remote store, the record is loaded (or created), addObject, save.
writeFile(d, p, obj, size) ==
    IF isDirectory(d, p) THEN Thrown(d, "CANNOT_OPEN_FILE")
    ELSE LET m == IF exists(d, p) THEN readMeta(d, p) ELSE createMeta
         IN  IF ~m.ok THEN Thrown(d, m.err)
             ELSE Done(WriteFileBytes([d EXCEPT !.remote = d.remote \cup {obj}], p,
                                      SaveMetadata(addObject(m, obj, size))))

\* The bytes of a metadata file some other build or a crash left behind: the
\* same file with a version above the supported range, or an empty file.
DamagedBytes(bytes, how) ==
    IF how = "version"
    THEN <<DigitChars[VERSION_READ_ONLY_FLAG + 2], "\n">>
    ELSE <<>>

Cur == DiskState(fs, inode, remote)

\* Inode numbers carry no meaning: every state is kept with each inode numbered
\* by the first path (in name order) that links to it.
FirstLink(f, p) == CHOOSE k \in 1..Len(PathOrder) :
                      /\ f[PathOrder[k]] = f[p]
                      /\ \A j \in 1..(k - 1) : f[PathOrder[j]] # f[p]

Renumbered(d) ==
    LET f == [p \in AllPaths |-> IF d.fs[p].kind = "file" THEN FileEntry(FirstLink(d.fs, p))
                              ELSE d.fs[p]]
    IN  [d EXCEPT !.fs = f,
                  !.inode = [k \in Inodes |->
                               IF f[PathOrder[k]] = FileEntry(k)
                               THEN d.inode[d.fs[PathOrder[k]].ino]
                               ELSE <<>>]]

\* The inodes in use.
FilesInUse(d) == {i \in Inodes : LinksOf(d.fs, i) # {}}

\* A call that would make a new metadata file has room for it.
RoomFor(p) == isFile(Cur, p) \/ Cardinality(FilesInUse(Cur)) < MaxFiles

\* What removeFile found at p: "absent", "dir", an "unreadable" metadata file, the
\* "sole" reference to a record (ref_count 0), or a "shared" record.
Found(d, p) ==
    IF ~exists(d, p) THEN "absent"
    ELSE IF ~isFile(d, p) THEN "dir"
    ELSE IF ~readMeta(d, p).ok THEN "unreadable"
    ELSE IF readMeta(d, p).rc = 0 THEN "sole" ELSE "shared"

\* The record of a call that was no removeFile.
NoRemoval == [op |-> "other", path |-> "a", keep |-> FALSE, err |-> "", deletes |-> <<>>,
              warned |-> FALSE, found |-> "absent"]

\* One completed call: the new state, and the record of the call (kept in
\* full for removeFile: its arguments, what it found, what it did).
Call(op, p, q, keep, out) ==
    /\ LET r == Renumbered(out.d)
       IN  fs' = r.fs /\ inode' = r.inode
    /\ remote' = out.d.remote
    /\ last' = IF op = "removeFile"
               THEN [op |-> op, path |-> p, keep |-> keep, err |-> out.err,
                     deletes |-> out.deletes, warned |-> out.warned, found |-> Found(Cur, p)]
               ELSE NoRemoval

RemoveFile(p, keep, nOk) ==
    /\ exists(Cur, p)
    /\ Call("removeFile", p, p, keep, removeMeta(Cur, p, keep, nOk))
    /\ UNCHANGED written

CreateHardLink(src, dst) ==
    /\ LET m == readMeta(Cur, src) IN m.ok => m.rc < MaxRefCount
    /\ Call("createHardLink", src, dst, FALSE, createHardLink(Cur, src, dst))
    /\ UNCHANGED written

CreateFile(p) ==
    /\ RoomFor(p)
    /\ Call("createFile", p, p, FALSE, createFile(Cur, p))
    /\ UNCHANGED written

CreateDirectory(p) ==
    /\ Call("createDirectory", p, p, FALSE, createDirectory(Cur, p))
    /\ UNCHANGED written

WriteFile(p) ==
    /\ written < MaxWritten
    /\ RoomFor(p)
    /\ LET out == writeFile(Cur, p, ObjectPath(written + 1), ObjectSize(written + 1))
       IN  /\ Call("writeFile", p, p, FALSE, out)
           /\ written' = IF out.err = "" THEN written + 1 ELSE written

\* The environment damages the metadata file at p.
Damage(p, how) ==
    /\ isFile(Cur, p)
    /\ readMeta(Cur, p).ok
    /\ Call("damage", p, p, FALSE,
            Done([Cur EXCEPT !.inode[fs[p].ino] = DamagedBytes(inode[fs[p].ino], how)]))
    /\ UNCHANGED written

InitDisk ==
    /\ fs = [p \in AllPaths |-> AbsentEntry]
    /\ inode = [i \in Inodes |-> <<>>]
    /\ remote = {}
    /\ written = 0
    /\ last = NoRemoval

Init == InitDisk /\ CodecIdle /\ LedgerIdle /\ WalkIdle

Next ==
    \/ \E p \in Paths, keep \in BOOLEAN :
          \E nOk \in 0..Len(readMeta(Cur, p).objs) :
             RemoveFile(p, keep, nOk) /\ UNCHANGED <<codecVars, ledgerVars, walkVars>>
    \/ \E src \in Paths, dst \in Paths :
          CreateHardLink(src, dst) /\ UNCHANGED <<codecVars, ledgerVars, walkVars>>
    \/ \E p \in Paths : CreateFile(p) /\ UNCHANGED <<codecVars, ledgerVars, walkVars>>
    \/ \E p \in DirPaths : CreateDirectory(p) /\ UNCHANGED <<codecVars, ledgerVars, walkVars>>
    \/ \E p \in Paths : WriteFile(p) /\ UNCHANGED <<codecVars, ledgerVars, walkVars>>
    \/ \E p \in Paths, how \in {"version", "empty"} :
          Damage(p, how) /\ UNCHANGED <<codecVars, ledgerVars, walkVars>>

Spec == Init /\ [][Next]_vars


\* SpecLinks: records are created at fresh paths, written to, hard-linked to
\* fresh paths and removed (without keeping the remote data); every remote
\* delete succeeds.
NextLinks ==
    \/ \E p \in Paths :
          ~exists(Cur, p) /\ CreateFile(p) /\ UNCHANGED <<codecVars, ledgerVars, walkVars>>
    \/ \E p \in Paths : WriteFile(p) /\ UNCHANGED <<codecVars, ledgerVars, walkVars>>
    \/ \E src \in Paths, dst \in Paths :
          /\ isFile(Cur, src) /\ ~exists(Cur, dst)
          /\ CreateHardLink(src, dst) /\ UNCHANGED <<codecVars, ledgerVars, walkVars>>
    \/ \E p \in Paths :
          RemoveFile(p, FALSE, MaxWritten) /\ UNCHANGED <<codecVars, ledgerVars, walkVars>>

SpecLinks == Init /\ [][NextLinks]_vars

\* The remote objects listed by the record at p (none when it cannot be read).
ListedAt(d, p) == SeqRange(PathsOf(readMeta(d, p).objs))

\* C1: for records created with ref_count 0 and hard-linked to further paths,
\* removeFile never deletes remote objects that an existing path still lists:
\* every existing path stays readable, its ref_count is the number of the other
\* paths still linked to its record (one less per removal), all objects it lists
\* are in the remote store; and the objects of a record are gone from the remote
\* store as soon as its last path is removed (the store holds listed objects only).
C1_LinkedObjectsSurvive ==
    /\ \A p \in Paths :
          isFile(Cur, p) =>
             /\ readMeta(Cur, p).ok
             /\ readMeta(Cur, p).rc = Cardinality(LinksOf(fs, fs[p].ino)) - 1
             /\ ListedAt(Cur, p) \subseteq remote
    /\ remote = UNION {ListedAt(Cur, p) : p \in {q \in Paths : isFile(Cur, q)}}

\* A removal has just purged the objects of a record whose last path it removed,
\* while another record with two paths and an object is still there.
C1_Witness ==
    /\ last.op = "removeFile" /\ last.found = "sole" /\ last.err = ""
    /\ last.deletes # <<>>
    /\ SeqRange(last.deletes) \cap remote = {}
    /\ \E p \in Paths : /\ isFile(Cur, p)
                        /\ readMeta(Cur, p).rc = 1
                        /\ ListedAt(Cur, p) # {}

IsPrefix(s, t) == Len(s) <= Len(t) /\ SubSeq(t, 1, Len(s)) = s

\* C2: removeFile on a readable record with ref_count 0 removes the local path;
\* with keep_in_remote_fs it issues no remote delete and leaves the remote store
\* alone; without it, it issues the deletes of the listed objects in list order,
\* one per entry (all of them when none fails), and nothing else.
C2_SoleReferenceRemoval ==
    /\ \A p \in Paths, keep \in BOOLEAN, nOk \in 0..MaxWritten :
          LET m == readMeta(Cur, p)
              out == removeMeta(Cur, p, keep, nOk)
          IN  (isFile(Cur, p) /\ m.ok /\ m.rc = 0) =>
                 /\ ~exists(out.d, p)
                 /\ keep => (out.deletes = <<>> /\ out.d.remote = remote /\ out.err = "")
                 /\ ~keep => /\ IsPrefix(out.deletes, PathsOf(m.objs))
                             /\ out.err = "" =>
                                   /\ out.deletes = PathsOf(m.objs)
                                   /\ out.d.remote = remote \ SeqRange(PathsOf(m.objs))
    /\ (last.op = "removeFile" /\ last.found = "sole") =>
          /\ ~exists(Cur, last.path)
          /\ last.keep => last.deletes = <<>>
          /\ (~last.keep /\ last.err = "") => SeqRange(last.deletes) \cap remote = {}

\* A removal of a sole reference has issued the deletes of two listed objects.
C2_Witness ==
    /\ last.op = "removeFile" /\ last.found = "sole" /\ ~last.keep /\ last.err = ""
    /\ Len(last.deletes) = 2
    /\ ~exists(Cur, last.path)

\* C3: removeFile on a readable record with ref_count k > 0 succeeds, issues no
\* remote delete and leaves the remote store alone whatever keep_in_remote_fs
\* is, removes the given path and no other, and every other path linked to the
\* record loads the same object list and total_size with ref_count k - 1; the
\* metadata files of other records are untouched.
C3_SharedRemoval ==
    \A p \in Paths, keep \in BOOLEAN, nOk \in 0..MaxWritten :
       LET m == readMeta(Cur, p)
           out == removeMeta(Cur, p, keep, nOk)
       IN  (isFile(Cur, p) /\ m.ok /\ m.rc > 0) =>
              /\ out.err = "" /\ out.deletes = <<>> /\ ~out.warned
              /\ out.d.remote = remote
              /\ out.d.fs = [fs EXCEPT ![p] = AbsentEntry]
              /\ \A q \in Paths \ {p} :
                    isFile(Cur, q) =>
                       IF fs[q].ino = fs[p].ino
                       THEN /\ readMeta(out.d, q).ok
                            /\ readMeta(out.d, q).rc = m.rc - 1
                            /\ readMeta(out.d, q).objs = m.objs
                            /\ readMeta(out.d, q).total = m.total
                       ELSE out.d.inode[fs[q].ino] = inode[fs[q].ino]

\* A removal has just left two other paths of the same record, which load
\* ref_count 1 and both objects.
C3_Witness ==
    /\ last.op = "removeFile" /\ last.found = "shared" /\ last.err = ""
    /\ \E q \in Paths, r \in Paths :
          /\ q # r /\ isFile(Cur, q) /\ fs[q] = fs[r]
          /\ readMeta(Cur, q).rc = 1
          /\ Len(readMeta(Cur, q).objs) = 2
          /\ ListedAt(Cur, q) \subseteq remote

\* C4: removeFile on a file whose metadata cannot be loaded (a version out of
\* range, or any other failure of the load) does not throw: it removes the local
\* path, logs a warning, issues no remote delete. An error of another kind
\* propagates: a remote delete that fails, and the error for a directory.
C4_UnreadableRemoval ==
    \A p \in Paths, keep \in BOOLEAN, nOk \in 0..MaxWritten :
       LET m == readMeta(Cur, p)
           out == removeMeta(Cur, p, keep, nOk)
       IN  /\ (isFile(Cur, p) /\ ~m.ok) =>
                 /\ out.err = "" /\ out.warned
                 /\ out.deletes = <<>> /\ out.d.remote = remote
                 /\ out.d.fs = [fs EXCEPT ![p] = AbsentEntry]
           /\ (isFile(Cur, p) /\ m.ok /\ m.rc = 0 /\ ~keep /\ nOk < Len(m.objs)) =>
                 out.err = "REMOTE_ERROR" /\ ~out.warned
           /\ isDirectory(Cur, p) =>
                 out.err = "CANNOT_DELETE_DIRECTORY" /\ ~out.warned /\ out.d = Cur

\* A removal has just swallowed the failed load of a metadata file whose version
\* is out of range: the path is gone, the objects written earlier are still in
\* the remote store.
C4_Witness ==
    /\ last.op = "removeFile" /\ last.found = "unreadable"
    /\ last.err = "" /\ last.warned /\ last.deletes = <<>>
    /\ ~exists(Cur, last.path)
    /\ written = MaxWritten /\ Cardinality(remote) = MaxWritten

-----------------------------------------------------------------------------
(***************************************************************************)
(* SpecLedger: the reservation counters, their mutex, the threads          *)
(***************************************************************************)

Threads == {"t1", "t2"}

\* Bound: the largest value of the unsigned counters; they wrap above it.
WordMax == 3
Modulus == WordMax + 1
Word == 0..WordMax

Min(x, y) == IF x < y THEN x ELSE y
Max(x, y) == IF x < y THEN y ELSE x

\* A thread outside every call: it keeps its reservation handle, if it has one.
Idle(has, size) ==
    [pc |-> "idle", op |-> "none", bytes |-> 0, avail |-> 0, unres |-> 0,
     pre_r |-> 0, pre_c |-> 0, pre_size |-> 0, has |-> has, size |-> size, ok |-> FALSE,
     queried |-> FALSE, logged_bytes |-> FALSE, logged_count |-> FALSE]

MutexIgnored(t) == TRUE

\* std::lock_guard lock(reservation_mutex): the constructor returns once the
\* mutex is free.
MutexAvailable(t) == mutex = "free"

StillLocked(t) == t

\* The end of the lock_guard's scope: the mutex as the thread leaves it.
Unlocked(t) == "free"

NeverZero(bytes) == FALSE

\* tryReserve, line 456.
IsZeroReservation(bytes) == bytes = 0

WrappedUnreserved(available, reserved) == (available - reserved) % Modulus

\* tryReserve, line 464.
UnreservedSpace(available, reserved) == available - Min(available, reserved)

ReleasedUnclamped(reserved, size) == (reserved - size) % Modulus

\* ~DiskRemoteReservation, lines 241-249: reserved_bytes after the release.
ReleasedBytes(reserved, size) == IF reserved < size THEN 0 ELSE reserved - size

\* ~DiskRemoteReservation, lines 251-254: reservation_count after the release.
ReleasedCount(count) == IF count = 0 THEN 0 ELSE count - 1

UpdateNotSubtracted(reserved, size) == reserved

\* update, line 230: the unsigned reserved_bytes -= size.
UpdateSubtracted(reserved, size) == (reserved - size) % Modulus

\* The serial execution: each call applied to the counters in one step.
SerialTryReserve(s, bytes, available) ==
    IF bytes = 0 THEN [s EXCEPT !.c = (s.c + 1) % Modulus]
    ELSE IF available - Min(available, s.r) >= bytes
         THEN [s EXCEPT !.c = (s.c + 1) % Modulus, !.r = (s.r + bytes) % Modulus]
         ELSE s

SerialTryReserveResult(s, bytes, available) ==
    bytes = 0 \/ available - Min(available, s.r) >= bytes

SerialUpdate(s, size, new_size) == [s EXCEPT !.r = (((s.r - size) % Modulus) + new_size) % Modulus]

SerialRelease(s, size) ==
    [s EXCEPT !.r = IF s.r < size THEN 0 ELSE s.r - size,
              !.c = IF s.c = 0 THEN 0 ELSE s.c - 1]

\* ---- tryReserve(bytes), called directly or from reserve(bytes)

\* The lock is taken as the call begins (line 455); a caller that finds the
\* mutex held waits outside.
EnterTryReserve(t, op, bytes) ==
    /\ th[t].pc = "idle"
    /\ MutexAvailable(t)
    /\ mutex' = t
    /\ th' = [th EXCEPT ![t].pc = IF IsZeroReservation(bytes) THEN "tr_zero" ELSE "tr_query",
                        ![t].op = op, ![t].bytes = bytes,
                        ![t].pre_r = reserved_bytes, ![t].pre_c = reservation_count]
    /\ UNCHANGED <<reserved_bytes, reservation_count, available_space, serial>>

CallTryReserve(t, bytes) == EnterTryReserve(t, "tryReserve", bytes)

\* reserve(bytes), lines 444-450: a thread holds one handle at a time.
CallReserve(t, bytes) == ~th[t].has /\ EnterTryReserve(t, "reserve", bytes)

\* Lines 458-460: ++reservation_count; return true.
TrZero(t) ==
    /\ th[t].pc = "tr_zero"
    /\ reservation_count' = (reservation_count + 1) % Modulus
    /\ th' = [th EXCEPT ![t].pc = "tr_unlock", ![t].ok = TRUE]
    /\ UNCHANGED <<reserved_bytes, available_space, mutex, serial>>

\* Line 463: getAvailableSpace() returns; the thread was inside the call while
\* at "tr_query".
TrQuery(t) ==
    /\ th[t].pc = "tr_query"
    /\ th' = [th EXCEPT ![t].pc = "tr_read", ![t].avail = available_space, ![t].queried = TRUE]
    /\ UNCHANGED <<reserved_bytes, reservation_count, available_space, mutex, serial>>

\* Line 464: unreserved_space from the counter as it is now.
TrRead(t) ==
    /\ th[t].pc = "tr_read"
    /\ th' = [th EXCEPT ![t].pc = "tr_write",
                        ![t].unres = UnreservedSpace(th[t].avail, reserved_bytes)]
    /\ UNCHANGED <<reserved_bytes, reservation_count, available_space, mutex, serial>>

RoomAlways(unreserved_space, bytes) == TRUE

\* tryReserve, line 465.
HasRoom(unreserved_space, bytes) == unreserved_space >= bytes

\* Lines 465-473: the comparison, and on success both increments.
TrWrite(t) ==
    /\ th[t].pc = "tr_write"
    /\ IF HasRoom(th[t].unres, th[t].bytes)
       THEN /\ reservation_count' = (reservation_count + 1) % Modulus
            /\ reserved_bytes' = (reserved_bytes + th[t].bytes) % Modulus
            /\ th' = [th EXCEPT ![t].pc = "tr_unlock", ![t].ok = TRUE]
       ELSE /\ UNCHANGED <<reservation_count, reserved_bytes>>
            /\ th' = [th EXCEPT ![t].pc = "tr_unlock", ![t].ok = FALSE]
    /\ UNCHANGED <<available_space, mutex, serial>>

ReturnsHandleAlways(t) == TRUE

\* reserve, lines 446-449: `if (!tryReserve(bytes)) return {};`, otherwise the
\* handle is made.
ReturnsHandle(t) == th[t].ok

\* The return: the lock_guard goes; reserve makes the handle when tryReserve
\* answered true (lines 446-449).
TrUnlock(t) ==
    /\ th[t].pc = "tr_unlock"
    /\ mutex' = Unlocked(t)
    /\ serial' = [SerialTryReserve(serial, th[t].bytes, th[t].avail) EXCEPT
                    !.agree = serial.agree
                              /\ th[t].ok = SerialTryReserveResult(serial, th[t].bytes, th[t].avail)]
    /\ th' = [th EXCEPT ![t] = IF th[t].op = "reserve" /\ ReturnsHandle(t)
                               THEN Idle(TRUE, th[t].bytes)
                               ELSE Idle(th[t].has, th[t].size)]
    /\ UNCHANGED <<reserved_bytes, reservation_count, available_space>>

\* ---- DiskRemoteReservation::update(new_size)

\* Line 229: the lock is taken.
CallUpdate(t, new_size) ==
    /\ th[t].pc = "idle" /\ th[t].has
    /\ MutexAvailable(t)
    /\ mutex' = t
    /\ serial' = SerialUpdate(serial, th[t].size, new_size)
    /\ th' = [th EXCEPT ![t].pc = "up_sub", ![t].op = "update", ![t].bytes = new_size,
                        ![t].pre_r = reserved_bytes, ![t].pre_c = reservation_count,
                        ![t].pre_size = th[t].size]
    /\ UNCHANGED <<reserved_bytes, reservation_count, available_space>>

\* Line 230: disk->reserved_bytes -= size.
UpSub(t) ==
    /\ th[t].pc = "up_sub"
    /\ reserved_bytes' = UpdateSubtracted(reserved_bytes, th[t].size)
    /\ th' = [th EXCEPT ![t].pc = "up_add"]
    /\ UNCHANGED <<reservation_count, available_space, mutex, serial>>

\* Lines 231-232: size = new_size; disk->reserved_bytes += size.
UpAdd(t) ==
    /\ th[t].pc = "up_add"
    /\ reserved_bytes' = (reserved_bytes + th[t].bytes) % Modulus
    /\ th' = [th EXCEPT ![t].pc = "up_unlock", ![t].size = th[t].bytes]
    /\ UNCHANGED <<reservation_count, available_space, mutex, serial>>

UpUnlock(t) ==
    /\ th[t].pc = "up_unlock"
    /\ mutex' = Unlocked(t)
    /\ th' = [th EXCEPT ![t] = Idle(TRUE, th[t].size)]
    /\ UNCHANGED <<reserved_bytes, reservation_count, available_space, serial>>

\* ---- DiskRemoteReservation::~DiskRemoteReservation()

\* Line 240: the lock is taken.
CallRelease(t) ==
    /\ th[t].pc = "idle" /\ th[t].has
    /\ MutexAvailable(t)
    /\ mutex' = t
    /\ serial' = SerialRelease(serial, th[t].size)
    /\ th' = [th EXCEPT ![t].pc = "rel_bytes", ![t].op = "release",
                        ![t].pre_r = reserved_bytes, ![t].pre_c = reservation_count]
    /\ UNCHANGED <<reserved_bytes, reservation_count, available_space>>

\* Lines 241-249.
RelBytes(t) ==
    /\ th[t].pc = "rel_bytes"
    /\ reserved_bytes' = ReleasedBytes(reserved_bytes, th[t].size)
    /\ th' = [th EXCEPT ![t].pc = "rel_count",
                        ![t].logged_bytes = reserved_bytes < th[t].size]
    /\ UNCHANGED <<reservation_count, available_space, mutex, serial>>

\* Lines 251-254.
RelCount(t) ==
    /\ th[t].pc = "rel_count"
    /\ reservation_count' = ReleasedCount(reservation_count)
    /\ th' = [th EXCEPT ![t].pc = "rel_unlock",
                        ![t].logged_count = (reservation_count = 0)]
    /\ UNCHANGED <<reserved_bytes, available_space, mutex, serial>>

\* The destructor returns: nothing was thrown, the handle is gone.
RelUnlock(t) ==
    /\ th[t].pc = "rel_unlock"
    /\ mutex' = Unlocked(t)
    /\ th' = [th EXCEPT ![t] = Idle(FALSE, 0)]
    /\ UNCHANGED <<reserved_bytes, reservation_count, available_space, serial>>

\* ---- The writer that holds a handle writes to the remote store; no reservation
\* call is on its stack.
BeginWrite(t) ==
    /\ th[t].pc = "idle" /\ th[t].has
    /\ th' = [th EXCEPT ![t].pc = "io", ![t].op = "write"]
    /\ UNCHANGED <<reserved_bytes, reservation_count, available_space, mutex, serial>>

EndWrite(t) ==
    /\ th[t].pc = "io"
    /\ th' = [th EXCEPT ![t] = Idle(TRUE, th[t].size)]
    /\ UNCHANGED <<reserved_bytes, reservation_count, available_space, mutex, serial>>

\* The remote store's free capacity changes.
SetAvailable(v) ==
    /\ v # available_space
    /\ available_space' = v
    /\ UNCHANGED <<reserved_bytes, reservation_count, mutex, th, serial>>

InitLedger ==
    /\ reserved_bytes = 0
    /\ reservation_count = 0
    /\ available_space \in Word
    /\ mutex = "free"
    /\ th = [t \in Threads |-> Idle(FALSE, 0)]
    /\ serial = [r |-> 0, c |-> 0, agree |-> TRUE]
    /\ CodecIdle
    /\ DiskIdle
    /\ WalkIdle

NextLedger ==
    \/ \E t \in Threads, bytes \in Word :
          CallTryReserve(t, bytes) /\ UNCHANGED <<codecVars, diskVars, walkVars>>
    \/ \E t \in Threads, bytes \in Word :
          CallReserve(t, bytes) /\ UNCHANGED <<codecVars, diskVars, walkVars>>
    \/ \E t \in Threads : TrZero(t) /\ UNCHANGED <<codecVars, diskVars, walkVars>>
    \/ \E t \in Threads : TrQuery(t) /\ UNCHANGED <<codecVars, diskVars, walkVars>>
    \/ \E t \in Threads : TrRead(t) /\ UNCHANGED <<codecVars, diskVars, walkVars>>
    \/ \E t \in Threads : TrWrite(t) /\ UNCHANGED <<codecVars, diskVars, walkVars>>
    \/ \E t \in Threads : TrUnlock(t) /\ UNCHANGED <<codecVars, diskVars, walkVars>>
    \/ \E t \in Threads, new_size \in Word :
          CallUpdate(t, new_size) /\ UNCHANGED <<codecVars, diskVars, walkVars>>
    \/ \E t \in Threads : UpSub(t) /\ UNCHANGED <<codecVars, diskVars, walkVars>>
    \/ \E t \in Threads : UpAdd(t) /\ UNCHANGED <<codecVars, diskVars, walkVars>>
    \/ \E t \in Threads : UpUnlock(t) /\ UNCHANGED <<codecVars, diskVars, walkVars>>
    \/ \E t \in Threads : CallRelease(t) /\ UNCHANGED <<codecVars, diskVars, walkVars>>
    \/ \E t \in Threads : RelBytes(t) /\ UNCHANGED <<codecVars, diskVars, walkVars>>
    \/ \E t \in Threads : RelCount(t) /\ UNCHANGED <<codecVars, diskVars, walkVars>>
    \/ \E t \in Threads : RelUnlock(t) /\ UNCHANGED <<codecVars, diskVars, walkVars>>
    \/ \E t \in Threads : BeginWrite(t) /\ UNCHANGED <<codecVars, diskVars, walkVars>>
    \/ \E t \in Threads : EndWrite(t) /\ UNCHANGED <<codecVars, diskVars, walkVars>>
    \/ \E v \in Word : SetAvailable(v) /\ UNCHANGED <<codecVars, diskVars, walkVars>>

SpecLedger == InitLedger /\ [][NextLedger]_vars

\* A thread inside a call to a local-storage or remote-store collaborator: the
\* capacity query of tryReserve, or a writer's transfer.
InCollaboratorCall(t) == th[t].pc \in {"tr_query", "io"}

InCriticalSection(t) == th[t].pc \notin {"idle", "io"}

\* C6: when tryReserve(bytes) with bytes > 0 returns, it answered true exactly
\* when available - min(available, reserved_bytes) >= bytes (available being
\* what the capacity query answered, reserved_bytes the counter at entry); on
\* true reserved_bytes is larger by exactly bytes and reservation_count by one,
\* on false both counters are what they were at entry.
C6_TryReserveDecision ==
    \A t \in Threads :
        (th[t].pc = "tr_unlock" /\ th[t].bytes > 0) =>
            /\ th[t].queried
            /\ th[t].ok = (th[t].avail - Min(th[t].avail, th[t].pre_r) >= th[t].bytes)
            /\ IF th[t].ok
               THEN /\ reserved_bytes = th[t].pre_r + th[t].bytes
                    /\ reservation_count = (th[t].pre_c + 1) % Modulus
               ELSE /\ reserved_bytes = th[t].pre_r
                    /\ reservation_count = th[t].pre_c

C6_Witness ==
    \E t \in Threads :
        /\ th[t].pc = "tr_unlock" /\ th[t].bytes > 0 /\ th[t].ok
        /\ th[t].pre_r > 0

\* C7: when tryReserve(0) returns, whatever the counters were at entry, it
\* answered true, reservation_count is larger by one, reserved_bytes is what it
\* was, and the available space was not queried.
C7_ZeroReservation ==
    \A t \in Threads :
        (th[t].pc = "tr_unlock" /\ th[t].bytes = 0) =>
            /\ th[t].ok
            /\ reservation_count = (th[t].pre_c + 1) % Modulus
            /\ reserved_bytes = th[t].pre_r
            /\ ~th[t].queried

C7_Witness ==
    \E t \in Threads :
        /\ th[t].pc = "tr_unlock" /\ th[t].bytes = 0
        /\ th[t].pre_r > available_space

\* C8: when the release of a reservation of size S returns, reserved_bytes is
\* max(reserved_bytes at entry - S, 0), reservation_count is
\* max(reservation_count at entry - 1, 0), an error was logged for a counter
\* exactly when that counter had to be clamped, and neither counter is above
\* its value at entry; every release that began has a step to take until it
\* returns.
C8_ReleaseClamps ==
    \A t \in Threads :
        /\ th[t].pc = "rel_unlock" =>
              /\ reserved_bytes = Max(th[t].pre_r - th[t].size, 0)
              /\ reservation_count = Max(th[t].pre_c - 1, 0)
              /\ th[t].logged_bytes = (th[t].pre_r < th[t].size)
              /\ th[t].logged_count = (th[t].pre_c = 0)
              /\ reserved_bytes <= th[t].pre_r
              /\ reservation_count <= th[t].pre_c
        /\ th[t].pc = "rel_bytes" => ENABLED RelBytes(t)
        /\ th[t].pc = "rel_count" => ENABLED RelCount(t)
        /\ th[t].pc = "rel_unlock" => ENABLED RelUnlock(t)

C8_Witness ==
    \E t \in Threads :
        /\ th[t].pc = "rel_unlock"
        /\ th[t].logged_bytes
        /\ th[t].pre_r > 0

\* C9: at most one thread is between the lock and the unlock of tryReserve,
\* update or release; whenever no thread is there the two counters equal those
\* of the same calls applied one at a time in the order they took the lock, every
\* tryReserve answered what it answers in that serial order, and a tryReserve
\* that answered true leaves reserved_bytes within the available space it saw.
C9_Serializable ==
    /\ Cardinality({t \in Threads : InCriticalSection(t)}) <= 1
    /\ serial.agree
    /\ (\A t \in Threads : ~InCriticalSection(t)) =>
          /\ reserved_bytes = serial.r
          /\ reservation_count = serial.c
    /\ \A t \in Threads :
          (th[t].pc = "tr_unlock" /\ th[t].bytes > 0 /\ th[t].ok) =>
              reserved_bytes <= th[t].avail

\* Two reservations that each fit the space alone and do not fit it together:
\* the second one has answered false.
C9_Witness ==
    \E t \in Threads, u \in Threads :
        /\ t # u
        /\ th[u].has /\ th[u].size > 0
        /\ th[t].pc = "tr_unlock" /\ th[t].bytes > 0 /\ ~th[t].ok
        /\ th[t].bytes <= th[t].avail
        /\ th[u].size <= th[t].avail

-----------------------------------------------------------------------------
(***************************************************************************)
(* Order of the local removal and the remote purge                         *)
(***************************************************************************)

\* C11: removeFile of a readable record with ref_count 0 and keep_in_remote_fs
\* = false removes the local path only after every remote delete succeeded: a
\* call whose remote purge fails leaves the path in place, a readable record
\* that still lists the same objects.
C11_LocalRemovedAfterPurge ==
    /\ \A p \in Paths, nOk \in 0..MaxWritten :
          LET m == readMeta(Cur, p)
              out == removeMeta(Cur, p, FALSE, nOk)
          IN  (isFile(Cur, p) /\ m.ok /\ m.rc = 0 /\ out.err # "") =>
                 /\ isFile(out.d, p)
                 /\ readMeta(out.d, p).ok
                 /\ readMeta(out.d, p).objs = m.objs
    /\ (last.op = "removeFile" /\ last.found = "sole" /\ ~last.keep /\ last.err # "") =>
          exists(Cur, last.path)

-----------------------------------------------------------------------------
(***************************************************************************)
(* removeFile on a directory                                               *)
(***************************************************************************)

\* C19: removeFile on a path that is a directory throws the
\* cannot-delete-directory error, whatever keep_in_remote_fs is, and leaves the
\* local tree, every metadata file and the remote store exactly as they were;
\* it issues no remote delete and logs no warning.
C19_DirectoryRefused ==
    /\ \A p \in Paths, keep \in BOOLEAN, nOk \in 0..MaxWritten :
          LET out == removeMeta(Cur, p, keep, nOk)
          IN  isDirectory(Cur, p) =>
                 /\ out.err = "CANNOT_DELETE_DIRECTORY"
                 /\ out.d.fs = fs /\ out.d.inode = inode /\ out.d.remote = remote
                 /\ out.deletes = <<>> /\ ~out.warned
    /\ (last.op = "removeFile" /\ last.found = "dir") =>
          /\ last.err = "CANNOT_DELETE_DIRECTORY"
          /\ last.deletes = <<>> /\ ~last.warned
          /\ isDirectory(Cur, last.path)

\* A removeFile on the directory has just been refused while a record with an
\* object exists beside it.
C19_Witness ==
    /\ last.op = "removeFile" /\ last.found = "dir"
    /\ last.err = "CANNOT_DELETE_DIRECTORY"
    /\ isDirectory(Cur, last.path)
    /\ \E q \in Paths : isFile(Cur, q) /\ ListedAt(Cur, q) # {} /\ ListedAt(Cur, q) \subseteq remote

-----------------------------------------------------------------------------
(***************************************************************************)
(* SpecOps: createFile, createHardLink, moveFile, replaceFile, setReadOnly *)
(* and removeFile on intact records                                        *)
(***************************************************************************)

ReplaceNoCleanup(d, tmp_path, nOk) == Done(d)

\* replaceFile, line 321: removeFile(tmp_path), which is
\* removeSharedFile(tmp_path, false).
ReplaceCleanup(d, tmp_path, nOk) == removeMeta(d, tmp_path, FALSE, nOk)

\* IDiskRemote::replaceFile(from_path, to_path); an exception of a step ends
\* the call with what the earlier steps did.
replaceFile(d, from, to, nOk) ==
    IF exists(d, to)
    THEN LET aside == moveFile(d, to, TmpPath(to))
         IN  IF aside.err # "" THEN aside
             ELSE LET placed == moveFile(aside.d, from, to)
                  IN  IF placed.err # "" THEN placed
                      ELSE ReplaceCleanup(placed.d, TmpPath(to), nOk)
    ELSE moveFile(d, from, to)

\* The record of the last call of SpecOps, kept in full for moveFile and
\* replaceFile (arguments, error, what was at the destination before), and
\* whether every call so far returned normally.
OtherCall(clean) == [op |-> "other", path |-> "a", to |-> "a", err |-> "",
                     deletes |-> <<>>, found |-> "absent", clean |-> clean]

CallOps(op, p, q, out) ==
    /\ LET r == Renumbered(out.d)
       IN  fs' = r.fs /\ inode' = r.inode
    /\ remote' = out.d.remote
    /\ last' = IF op \in {"moveFile", "replaceFile"}
               THEN [op |-> op, path |-> p, to |-> q, err |-> out.err, deletes |-> out.deletes,
                     found |-> Found(Cur, q), clean |-> last.clean /\ out.err = ""]
               ELSE OtherCall(last.clean /\ out.err = "")

\* createFile on a fresh path.
OpsCreateFile(p) ==
    /\ ~exists(Cur, p) /\ RoomFor(p)
    /\ CallOps("createFile", p, p, createFile(Cur, p))
    /\ UNCHANGED written

OpsWriteFile(p) ==
    /\ isFile(Cur, p) /\ written < MaxWritten
    /\ LET out == writeFile(Cur, p, ObjectPath(written + 1), ObjectSize(written + 1))
       IN  /\ CallOps("writeFile", p, p, out)
           /\ written' = IF out.err = "" THEN written + 1 ELSE written

OpsCreateHardLink(src, dst) ==
    /\ isFile(Cur, src)
    /\ readMeta(Cur, src).rc < MaxRefCount
    /\ CallOps("createHardLink", src, dst, createHardLink(Cur, src, dst))
    /\ UNCHANGED written

OpsMoveFile(from, to) ==
    /\ exists(Cur, from)
    /\ CallOps("moveFile", from, to, moveFile(Cur, from, to))
    /\ UNCHANGED written

\* replaceFile onto a path whose temporary name is a path of the model.
OpsReplaceFile(from, to) ==
    /\ exists(Cur, from)
    /\ TmpPath(to) \in AllPaths
    /\ CallOps("replaceFile", from, to, replaceFile(Cur, from, to, MaxWritten))
    /\ UNCHANGED written

OpsSetReadOnly(p) ==
    /\ isFile(Cur, p)
    /\ CallOps("setReadOnly", p, p, setReadOnly(Cur, p))
    /\ UNCHANGED written

\* removeFile(path): removeSharedFile(path, false); every remote delete succeeds.
OpsRemoveFile(p) ==
    /\ exists(Cur, p)
    /\ CallOps("removeFile", p, p, removeMeta(Cur, p, FALSE, MaxWritten))
    /\ UNCHANGED written

InitOps ==
    /\ fs = [p \in AllPaths |-> AbsentEntry]
    /\ inode = [i \in Inodes |-> <<>>]
    /\ remote = {}
    /\ written = 0
    /\ last = OtherCall(TRUE)
    /\ CodecIdle
    /\ LedgerIdle
    /\ WalkIdle

\* The paths the calls of SpecOps name: "a", its temporary name, and "b".
OpsPaths == AllPaths \ DirPaths

\* The path setReadOnly is called on.
ReadOnlyPaths == {"b"}

NextOps ==
    \/ \E p \in OpsPaths : OpsCreateFile(p) /\ UNCHANGED <<codecVars, ledgerVars, walkVars>>
    \/ \E p \in OpsPaths : OpsWriteFile(p) /\ UNCHANGED <<codecVars, ledgerVars, walkVars>>
    \/ \E src \in OpsPaths, dst \in OpsPaths :
          OpsCreateHardLink(src, dst) /\ UNCHANGED <<codecVars, ledgerVars, walkVars>>
    \/ \E from \in OpsPaths, to \in OpsPaths :
          OpsMoveFile(from, to) /\ UNCHANGED <<codecVars, ledgerVars, walkVars>>
    \/ \E from \in OpsPaths, to \in OpsPaths :
          OpsReplaceFile(from, to) /\ UNCHANGED <<codecVars, ledgerVars, walkVars>>
    \/ \E p \in ReadOnlyPaths : OpsSetReadOnly(p) /\ UNCHANGED <<codecVars, ledgerVars, walkVars>>
    \/ \E p \in OpsPaths : OpsRemoveFile(p) /\ UNCHANGED <<codecVars, ledgerVars, walkVars>>

SpecOps == InitOps /\ [][NextOps]_vars

\* C12: moveFile(from, to) throws the already-exists error when something
\* exists at `to` and then leaves the local tree, every metadata file and the
\* remote store as they were; when nothing exists at `to` and `from` is a file
\* it returns normally, `to` is the file `from` was (it loads the same objects,
\* total_size and ref_count), `from` is absent, no other path and no metadata
\* file changes, and the remote store is untouched.
C12_MoveFile ==
    /\ \A from \in AllPaths, to \in AllPaths :
          LET out == moveFile(Cur, from, to)
          IN  /\ exists(Cur, to) =>
                    /\ out.err = "FILE_ALREADY_EXISTS"
                    /\ out.d.fs = fs /\ out.d.inode = inode /\ out.d.remote = remote
              /\ (~exists(Cur, to) /\ isFile(Cur, from)) =>
                    /\ out.err = ""
                    /\ out.d.fs = [fs EXCEPT ![to] = fs[from], ![from] = AbsentEntry]
                    /\ ~exists(out.d, from)
                    /\ readMeta(out.d, to) = readMeta(Cur, from)
                    /\ out.d.inode = inode /\ out.d.remote = remote
                    /\ out.deletes = <<>>
    /\ (last.op = "moveFile" /\ last.found # "absent") => last.err = "FILE_ALREADY_EXISTS"
    /\ (last.op = "moveFile" /\ last.found = "absent") =>
          /\ last.err = ""
          /\ isFile(Cur, last.to)
          /\ ~exists(Cur, last.path)

\* A moveFile has just moved a hard-linked record that lists an object.
C12_Witness ==
    /\ last.op = "moveFile" /\ last.err = ""
    /\ isFile(Cur, last.to) /\ ~exists(Cur, last.path)
    /\ readMeta(Cur, last.to).rc = 1
    /\ Cardinality(LinksOf(fs, fs[last.to].ino)) = 2
    /\ ListedAt(Cur, last.to) # {} /\ ListedAt(Cur, last.to) \subseteq remote

\* The destinations of replaceFile whose temporary name is a path of the model.
ReplaceTargets == {to \in AllPaths : TmpPath(to) \in AllPaths}

\* C13 as stated: whenever a readable record is at `to` and `from` is another
\* file, also when something exists at to + ".old", replaceFile(from, to)
\* returns normally with `to` being the file `from` was, `from` absent and the
\* temporary name absent.
C13_ReplaceAlways ==
    \A from \in AllPaths, to \in ReplaceTargets :
       LET out == replaceFile(Cur, from, to, MaxWritten)
       IN  (isFile(Cur, to) /\ readMeta(Cur, to).ok /\ isFile(Cur, from)
            /\ from # to /\ from # TmpPath(to)) =>
              /\ out.err = ""
              /\ isFile(out.d, to) /\ out.d.fs[to].ino = fs[from].ino
              /\ ~exists(out.d, from)
              /\ ~exists(out.d, TmpPath(to))

\* C13: replaceFile(from, to) with nothing at `to` is moveFile(from, to); with
\* something at `to` and something at to + ".old" it throws the already-exists
\* error and changes nothing; with a readable record at `to`, nothing at
\* to + ".old" and `from` another file it returns normally, `to` is the file
\* `from` was, `from` and the temporary name are absent, and the record that was
\* at `to` is released as removeFile(to) releases it: with ref_count 0 its
\* objects are deleted from the remote store, otherwise its other paths load it
\* with ref_count one less and the remote store is untouched.
C13_ReplaceFile ==
    /\ \A from \in AllPaths, to \in ReplaceTargets :
          LET tmp == TmpPath(to)
              out == replaceFile(Cur, from, to, MaxWritten)
              mt  == readMeta(Cur, to)
              rm  == removeMeta(Cur, to, FALSE, MaxWritten)
          IN  /\ ~exists(Cur, to) => out = moveFile(Cur, from, to)
              /\ (exists(Cur, to) /\ exists(Cur, tmp)) =>
                    /\ out.err = "FILE_ALREADY_EXISTS"
                    /\ out.d.fs = fs /\ out.d.inode = inode /\ out.d.remote = remote
              /\ (isFile(Cur, to) /\ mt.ok /\ ~exists(Cur, tmp) /\ isFile(Cur, from) /\ from # to) =>
                    /\ out.err = ""
                    /\ isFile(out.d, to) /\ out.d.fs[to].ino = fs[from].ino
                    /\ ~exists(out.d, from)
                    /\ ~exists(out.d, tmp)
                    /\ out.deletes = rm.deletes
                    /\ out.d.remote = rm.d.remote
                    /\ out.d.inode = rm.d.inode
                    /\ out.d.fs = [rm.d.fs EXCEPT ![to] = fs[from], ![from] = AbsentEntry]
                    /\ fs[from].ino # fs[to].ino => readMeta(out.d, to) = readMeta(Cur, from)
                    /\ mt.rc = 0 =>
                          /\ out.deletes = PathsOf(mt.objs)
                          /\ out.d.remote = remote \ SeqRange(PathsOf(mt.objs))
                    /\ mt.rc > 0 =>
                          /\ out.deletes = <<>> /\ out.d.remote = remote
                          /\ \A q \in LinksOf(fs, fs[to].ino) \ {to, from} :
                                /\ readMeta(out.d, q).rc = mt.rc - 1
                                /\ readMeta(out.d, q).objs = mt.objs
    /\ (last.op = "replaceFile" /\ last.err = "") =>
          /\ exists(Cur, last.to)
          /\ ~exists(Cur, last.path)
          /\ last.found # "absent" => ~exists(Cur, TmpPath(last.to))

\* A replaceFile has just put a record that lists an object in the place of a
\* record with ref_count 0 whose object it deleted from the remote store.
C13_Witness ==
    /\ last.op = "replaceFile" /\ last.err = "" /\ last.found = "sole"
    /\ last.deletes # <<>>
    /\ SeqRange(last.deletes) \cap remote = {}
    /\ isFile(Cur, last.to)
    /\ ListedAt(Cur, last.to) # {} /\ ListedAt(Cur, last.to) \subseteq remote
    /\ ~exists(Cur, TmpPath(last.to))

C18_UpdateExact ==
    \A t \in Threads :
        /\ th[t].pc = "up_add" => reserved_bytes = th[t].pre_r - th[t].pre_size
        /\ th[t].pc = "up_unlock" =>
              /\ reserved_bytes - th[t].pre_r = th[t].bytes - th[t].pre_size
              /\ th[t].size = th[t].bytes
              /\ reservation_count = th[t].pre_c

\* C18: update(new_size) on a reservation of size S always runs to its return,
\* whatever the available space is; it sets the handle's size to new_size and
\* leaves reservation_count unchanged; reserved_bytes becomes
\* ((reserved_bytes - S) mod 2^w + new_size) mod 2^w, which is a change of
\* exactly new_size - S with no wrap-around in the subtraction or the addition
\* when reserved_bytes >= S at entry and reserved_bytes - S + new_size fits the
\* counter.
C18_Update ==
    \A t \in Threads :
        /\ th[t].pc = "up_sub" => ENABLED UpSub(t)
        /\ th[t].pc = "up_add" =>
              /\ ENABLED UpAdd(t)
              /\ reserved_bytes = (th[t].pre_r - th[t].pre_size) % Modulus
              /\ th[t].pre_r >= th[t].pre_size =>
                    reserved_bytes = th[t].pre_r - th[t].pre_size
        /\ th[t].pc = "up_unlock" =>
              /\ ENABLED UpUnlock(t)
              /\ th[t].size = th[t].bytes
              /\ reservation_count = th[t].pre_c
              /\ reserved_bytes
                    = (((th[t].pre_r - th[t].pre_size) % Modulus) + th[t].bytes) % Modulus
              /\ (/\ th[t].pre_r >= th[t].pre_size
                  /\ th[t].pre_r - th[t].pre_size + th[t].bytes <= WordMax) =>
                    reserved_bytes - th[t].pre_r = th[t].bytes - th[t].pre_size

\* An update has grown a reservation, beside another thread's reservation,
\* past the available space; nothing wrapped.
C18_Witness ==
    \E t \in Threads, u \in Threads :
        /\ t # u /\ th[u].has /\ th[u].size > 0
        /\ th[t].pc = "up_unlock"
        /\ th[t].pre_size > 0 /\ th[t].bytes > th[t].pre_size
        /\ reserved_bytes = th[t].pre_r - th[t].pre_size + th[t].bytes
        /\ reserved_bytes > available_space

-----------------------------------------------------------------------------
(***************************************************************************)
(* SpecAppend: a record made in create mode, and addObject calls on it     *)
(***************************************************************************)

\* Bound: the addObject calls made on one record.
MaxAppends == 3

\* The sizes appended: the largest one makes total_size wrap.
AppendSizes == ObjectSizes \cup {TotalMax - 3}

\* createMeta(path): the record as the constructor leaves it; no call yet.
InitAppend ==
    /\ mem = createMeta
    /\ file = <<>>
    /\ codecLast = [op |-> "create", saved |-> createMeta, calls |-> <<>>]
    /\ DiskIdle
    /\ LedgerIdle
    /\ WalkIdle

\* metadata.addObject(path, size); the arguments are noted in call order.
AppendObject(path, size) ==
    /\ Len(codecLast.calls) < MaxAppends
    /\ mem' = addObject(mem, path, size)
    /\ codecLast' = [codecLast EXCEPT !.op = "add",
                                      !.calls = Append(@, [path |-> path, size |-> size])]
    /\ UNCHANGED file

NextAppend ==
    \E path \in ObjectPaths, size \in AppendSizes :
        AppendObject(path, size) /\ UNCHANGED <<diskVars, ledgerVars, walkVars>>

SpecAppend == InitAppend /\ [][NextAppend]_vars

\* C17: for a record created in create mode, after any sequence of addObject
\* calls, total_size is the sum of the sizes of the objects in the list (the
\* sum in the counter's unsigned arithmetic, which is the plain sum whenever
\* that fits), the list holds the objects in call order with duplicates kept,
\* and ref_count and read_only are what create mode set them to.
C17_AddObject ==
    /\ mem.ok
    /\ mem.total = SumSizes(mem.objs) % TotalModulus
    /\ SumSizes(mem.objs) <= TotalMax => mem.total = SumSizes(mem.objs)
    /\ mem.objs = codecLast.calls
    /\ mem.rc = createMeta.rc
    /\ mem.ro = createMeta.ro

\* The same object was added twice, and another one between.
C17_Witness ==
    /\ codecLast.op = "add"
    /\ Len(mem.objs) = 3
    /\ mem.objs[1] = mem.objs[3] /\ mem.objs[1] # mem.objs[2]
    /\ mem.objs[1].size > 0 /\ mem.objs[2].size > 0
    /\ mem.total = 2 * mem.objs[1].size + mem.objs[2].size

-----------------------------------------------------------------------------
(***************************************************************************)
(* SpecLegacy: metadata files of the older versions, loaded and saved again *)
(***************************************************************************)

\* A metadata file of a version without the read-only line, as the loader
\* reads it back: the stored paths are written as they are given.
WriteVersioned(version, stored, total, rc) ==
    writeIntText(version) \o <<"\n">>
    \o writeIntText(Len(stored)) \o <<"\t">> \o writeIntText(total) \o <<"\n">>
    \o SaveObjects(stored)
    \o writeIntText(rc) \o <<"\n">>

\* Root-relative object paths; the last one itself begins like the root.
LegacyRelative == {<<"p">>, <<"\t", "p">>, remote_fs_root_path}

\* Stored paths that do not start with the root.
LegacyForeign == {<<"p">>, <<"r", "p">>, <<"r">>}

LegacySizes == {0, 12}
LegacyRefCounts == {0, 10}

\* What a version-1 file may hold as a path: the root and a relative path, or
\* something else.
StoredPaths(version) ==
    IF version = VERSION_ABSOLUTE_PATHS
    THEN {remote_fs_root_path \o p : p \in LegacyRelative} \cup LegacyForeign
    ELSE LegacyRelative

StoredLists(version) ==
    UNION {[1..n -> [path : StoredPaths(version), size : LegacySizes]] : n \in 0..MaxObjects}

\* The list with the first Len(root) characters of every path dropped.
RelativeOf(stored, root) ==
    [k \in 1..Len(stored) |->
        [path |-> SubSeq(stored[k].path, Len(root) + 1, Len(stored[k].path)),
         size |-> stored[k].size]]

HasRoot(stored, root) == \A k \in 1..Len(stored) : starts_with(stored[k].path, root)

\* A file of version 1 or 2 is on the disk; nothing is loaded yet.
InitLegacy ==
    /\ codecLast \in {[op |-> "written", version |-> v, stored |-> s, rc |-> r] :
                         v \in {VERSION_ABSOLUTE_PATHS, VERSION_RELATIVE_PATHS},
                         s \in StoredLists(VERSION_ABSOLUTE_PATHS) \cup StoredLists(VERSION_RELATIVE_PATHS),
                         r \in LegacyRefCounts}
    /\ codecLast.stored \in StoredLists(codecLast.version)
    /\ file = WriteVersioned(codecLast.version, codecLast.stored,
                             SumSizes(codecLast.stored), codecLast.rc)
    /\ mem = createMeta
    /\ DiskIdle
    /\ LedgerIdle
    /\ WalkIdle

\* readMeta of the file as it was found.
LegacyLoad ==
    /\ codecLast.op = "written"
    /\ mem' = LoadMetadata(file, remote_fs_root_path)
    /\ codecLast' = [codecLast EXCEPT !.op = "load"]
    /\ UNCHANGED file

\* metadata.save() of the record loaded.
LegacySave ==
    /\ codecLast.op = "load" /\ mem.ok
    /\ file' = SaveMetadata(mem)
    /\ codecLast' = [codecLast EXCEPT !.op = "save"]
    /\ UNCHANGED mem

\* readMeta of the file save wrote.
LegacyReload ==
    /\ codecLast.op = "save"
    /\ mem' = LoadMetadata(file, remote_fs_root_path)
    /\ codecLast' = [codecLast EXCEPT !.op = "reload"]
    /\ UNCHANGED file

NextLegacy ==
    \/ LegacyLoad /\ UNCHANGED <<diskVars, ledgerVars, walkVars>>
    \/ LegacySave /\ UNCHANGED <<diskVars, ledgerVars, walkVars>>
    \/ LegacyReload /\ UNCHANGED <<diskVars, ledgerVars, walkVars>>

SpecLegacy == InitLegacy /\ [][NextLegacy]_vars

\* C15: the load of a version-1 file fails, with the format error, exactly
\* when some stored object path does not start with the remote root; when it
\* succeeds every path is the stored one without the root prefix (and nothing
\* more), sizes, total_size and ref_count are the stored ones, and the file the
\* loaded record is saved to has the same content as the file saved from the
\* record loaded from the version-2 file with the relative paths; it loads
\* again to the same record.
C15_LegacyPaths ==
    codecLast.version = VERSION_ABSOLUTE_PATHS =>
       LET root     == remote_fs_root_path
           stored   == codecLast.stored
           relative == RelativeOf(stored, root)
           twin     == LoadMetadata(WriteVersioned(VERSION_RELATIVE_PATHS, relative,
                                                   SumSizes(stored), codecLast.rc), root)
       IN  /\ codecLast.op = "load" =>
                /\ mem.ok = HasRoot(stored, root)
                /\ ~mem.ok => mem.err = UNKNOWN_FORMAT
                /\ mem.ok =>
                      /\ Len(mem.objs) = Len(stored)
                      /\ \A k \in 1..Len(stored) :
                            /\ root \o mem.objs[k].path = stored[k].path
                            /\ mem.objs[k].size = stored[k].size
                      /\ mem.total = SumSizes(stored)
                      /\ mem.rc = codecLast.rc
                      /\ mem = twin
           /\ codecLast.op = "save" =>
                /\ HasRoot(stored, root)
                /\ twin.ok
                /\ file = SaveMetadata(twin)
           /\ codecLast.op = "reload" =>
                /\ mem.ok
                /\ mem.objs = relative
                /\ mem.total = SumSizes(stored) /\ mem.rc = codecLast.rc

\* A version-1 file with two objects under the root, one of them with a
\* relative path that begins like the root, was loaded and saved again.
C15_Witness ==
    /\ codecLast.version = VERSION_ABSOLUTE_PATHS
    /\ codecLast.op = "save"
    /\ Len(mem.objs) = 2
    /\ mem.objs[1].path = remote_fs_root_path
    /\ mem.objs[2].path = <<"\t", "p">>
    /\ mem.rc > 0

-----------------------------------------------------------------------------
(***************************************************************************)
(* SpecDamaged: metadata files of every version, cut short, overwritten or *)
(* unreadable, and their load                                              *)
(***************************************************************************)

\* The versions written on the first line: those this code reads, one below
\* and one above.
DamagedVersions == (VERSION_ABSOLUTE_PATHS - 1)..(VERSION_READ_ONLY_FLAG + 1)

\* A metadata file of the given version; the read-only line is there from
\* VERSION_READ_ONLY_FLAG on.
WriteFlagged(version, stored, total, rc, ro) ==
    WriteVersioned(version, stored, total, rc)
    \o (IF version >= VERSION_READ_ONLY_FLAG THEN writeBoolText(ro) \o <<"\n">> ELSE <<>>)

\* Root-relative object paths; the second one is written with an escape.
DamagedRelative == {<<"p">>, <<"\\", "p">>}

DamagedPaths(version) ==
    IF version = VERSION_ABSOLUTE_PATHS
    THEN {remote_fs_root_path \o p : p \in DamagedRelative}
    ELSE DamagedRelative

DamagedLists(version) ==
    UNION {[1..n -> [path : DamagedPaths(version), size : {12}]] : n \in 0..MaxObjects}

\* The characters a byte of the file is overwritten with.
DamageChars == {"x", "\n", "\t", "9", "0"}

OriginalFile(c) == WriteFlagged(c.version, c.stored, SumSizes(c.stored), c.rc, c.ro)

\* A whole file of some version is on the disk.
InitDamaged ==
    /\ codecLast \in {[op |-> "written", version |-> v, stored |-> s, rc |-> 1, ro |-> ro,
                       damage |-> "none"] :
                         v \in DamagedVersions,
                         s \in UNION {DamagedLists(w) : w \in DamagedVersions},
                         ro \in BOOLEAN}
    /\ codecLast.stored \in DamagedLists(codecLast.version)
    /\ codecLast.ro => codecLast.version >= VERSION_READ_ONLY_FLAG
    /\ file = OriginalFile(codecLast)
    /\ mem = createMeta
    /\ DiskIdle
    /\ LedgerIdle
    /\ WalkIdle

\* The file loses its end: n bytes are left.
Truncate(n) ==
    /\ codecLast.op = "written"
    /\ n < Len(file)
    /\ file' = SubSeq(file, 1, n)
    /\ codecLast' = [codecLast EXCEPT !.op = "damaged", !.damage = "truncated"]
    /\ UNCHANGED mem

\* One byte of the file becomes another character.
Overwrite(i, c) ==
    /\ codecLast.op = "written"
    /\ i <= Len(file) /\ file[i] # c
    /\ file' = [file EXCEPT ![i] = c]
    /\ codecLast' = [codecLast EXCEPT !.op = "damaged", !.damage = "overwritten"]
    /\ UNCHANGED mem

\* The file can no longer be opened.
MakeUnreadable ==
    /\ codecLast.op = "written"
    /\ codecLast' = [codecLast EXCEPT !.op = "damaged", !.damage = "unreadable"]
    /\ UNCHANGED <<mem, file>>

\* What the try block does with the file as it is now.
TryLoadFile ==
    IF codecLast.damage = "unreadable" THEN LoadError(CANNOT_OPEN_FILE)
    ELSE TryLoad(file, remote_fs_root_path)

\* readMeta of the file as it is now.
DamagedLoad ==
    /\ codecLast.op \in {"written", "damaged"}
    /\ mem' = CatchLoad(TryLoadFile)
    /\ codecLast' = [codecLast EXCEPT !.op = "load"]
    /\ UNCHANGED file

\* Bound: the positions of a file that are cut at or overwritten.
MaxFileLen == 32

NextDamaged ==
    \/ \E n \in 0..MaxFileLen : Truncate(n) /\ UNCHANGED <<diskVars, ledgerVars, walkVars>>
    \/ \E i \in 1..MaxFileLen, c \in DamageChars :
          Overwrite(i, c) /\ UNCHANGED <<diskVars, ledgerVars, walkVars>>
    \/ MakeUnreadable /\ UNCHANGED <<diskVars, ledgerVars, walkVars>>
    \/ DamagedLoad /\ UNCHANGED <<diskVars, ledgerVars, walkVars>>

SpecDamaged == InitDamaged /\ [][NextDamaged]_vars

\* The first line of the file holds a version number outside the versions
\* this code reads.
VersionOutOfRange(t) ==
    LET ver == readIntText(t, 1)
        nl  == assertChar("\n", t, ver.pos)
    IN  /\ ver.ok /\ nl.ok
        /\ (ver.val < VERSION_ABSOLUTE_PATHS \/ ver.val > VERSION_READ_ONLY_FLAG)

FirstLine(t) == SubSeq(t, 1, readIntText(t, 1).pos)

LowerLevelCodes ==
    {ATTEMPT_TO_READ_AFTER_EOF, CANNOT_PARSE_INPUT_ASSERTION_FAILED,
     CANNOT_PARSE_ESCAPE_SEQUENCE, CANNOT_OPEN_FILE}

\* C16: a load that fails carries the UNKNOWN_FORMAT code and returns no
\* record. When the first line holds a version outside [1, 3] the load fails
\* with the exception of the version test, not wrapped, whatever follows the
\* first line; when a reading helper or the open throws, the exception is
\* UNKNOWN_FORMAT wrapping that one; a file that lost its end, or cannot be
\* opened, never loads; a whole file of a version in range loads to what it
\* holds.
C16_LoadErrors ==
    codecLast.op = "load" =>
       LET raw == TryLoadFile
           readable == codecLast.damage # "unreadable"
       IN  /\ ~mem.ok =>
                /\ mem.err = UNKNOWN_FORMAT
                /\ mem.objs = <<>> /\ mem.total = 0 /\ mem.rc = 0 /\ ~mem.ro
           /\ mem.ok => mem.err = "" /\ mem.nested = ""
           /\ (readable /\ VersionOutOfRange(file)) =>
                /\ ~mem.ok /\ mem.nested = ""
                /\ mem = LoadMetadata(FirstLine(file), remote_fs_root_path)
           /\ (~raw.ok /\ raw.err \in LowerLevelCodes) =>
                /\ ~mem.ok /\ mem.err = UNKNOWN_FORMAT /\ mem.nested = raw.err
           /\ (~raw.ok /\ raw.err = UNKNOWN_FORMAT) => mem = raw
           /\ ~readable => ~mem.ok /\ mem.nested = CANNOT_OPEN_FILE
           /\ codecLast.damage = "truncated" => ~mem.ok
           /\ (codecLast.damage = "none" /\ ~VersionOutOfRange(file)) =>
                /\ mem.ok
                /\ Len(mem.objs) = Len(codecLast.stored)
                /\ mem.total = SumSizes(codecLast.stored)
                /\ mem.rc = codecLast.rc /\ mem.ro = codecLast.ro

\* A file of a version in range that lists objects lost its end, and its load
\* failed with the wrapped end-of-file exception of a helper.
C16_Witness ==
    /\ codecLast.op = "load" /\ codecLast.damage = "truncated"
    /\ codecLast.version = VERSION_READ_ONLY_FLAG
    /\ Len(codecLast.stored) > 0
    /\ Len(file) > 8
    /\ ~mem.ok /\ mem.err = UNKNOWN_FORMAT /\ mem.nested = ATTEMPT_TO_READ_AFTER_EOF

-----------------------------------------------------------------------------
(***************************************************************************)
(* SpecWalk: removeRecursive and removeSharedRecursive on a local tree     *)
(***************************************************************************)

\* Bound: the nested calls the stack has room for before checkStackSize throws.
MaxStackDepth == 4

\* Bound: the entries of the local tree, the root included.
MaxNodes == 4

RootNode == 1

\* The code of the exception checkStackSize throws.
TOO_DEEP_RECURSION == "TOO_DEEP_RECURSION"

\* An entry of the tree: a file, a directory, a symbolic link to a directory,
\* or nothing; parent is the directory it is an entry of.
AbsentNode == [kind |-> "absent", parent |-> RootNode, target |-> RootNode]

DirsOf(t) == {m \in 1..Len(t) : t[m].kind = "dir"}

\* The directories above the entry n, up to the root.
RECURSIVE Ancestors(_, _)
Ancestors(t, n) ==
    IF n = RootNode THEN {} ELSE {t[n].parent} \cup Ancestors(t, t[n].parent)

\* What the next entry of a tree may be: nothing, a file or a directory in one
\* of its directories, or a link from a directory to itself or to a directory
\* above it.
Extensions(t) ==
    {AbsentNode}
    \cup {[kind |-> k, parent |-> p, target |-> RootNode] : k \in {"file", "dir"}, p \in DirsOf(t)}
    \cup UNION {{[kind |-> "link", parent |-> p, target |-> g] : g \in {p} \cup Ancestors(t, p)} :
                   p \in DirsOf(t)}

RECURSIVE TreesOf(_)
TreesOf(n) ==
    IF n = 1
    THEN {<<[kind |-> k, parent |-> RootNode, target |-> RootNode]>> : k \in {"file", "dir"}}
    ELSE UNION {{Append(t, e) : e \in Extensions(t)} : t \in TreesOf(n - 1)}

Trees == TreesOf(MaxNodes)

\* The entries of the directory n.
Kids(t, n) ==
    {m \in 1..Len(t) : m # RootNode /\ t[m].kind # "absent" /\ t[m].parent = n}

\* stat follows a symbolic link.
Resolve(t, n) == IF t[n].kind = "link" THEN t[n].target ELSE n

\* Poco::File(metadata_path + path).isFile().
isFileNode(t, n) == t[Resolve(t, n)].kind = "file"

\* The tree has a cycle: a link to its own directory or to one above it.
Cyclic(t) == \E n \in 1..Len(t) : t[n].kind = "link"

\* checkStackSize(): the stack has no room for this call.
StackExceeded(depth) == depth > MaxStackDepth

EntryUnchecked(depth) == FALSE

\* Lines 203 and 349: checkStackSize() is the first statement of the call.
EntryCheck(depth) == StackExceeded(depth)

\* A call that has just been entered on the entry n.
Frame(n) == [node |-> n, pc |-> "check", todo |-> {}]

Top == walk.stack[Len(walk.stack)]

\* The top call returns to its caller, or to the caller of the whole removal.
Returned(w) ==
    LET s == SubSeq(w.stack, 1, Len(w.stack) - 1)
    IN  [w EXCEPT !.stack = s, !.status = IF s = <<>> THEN "done" ELSE "running"]

\* An exception leaves every call on the stack.
Unwound(w, code) == [w EXCEPT !.stack = <<>>, !.status = code]

InitWalk ==
    /\ walk \in {[op |-> "none", tree |-> t, stack |-> <<>>, status |-> "idle"] : t \in Trees}
    /\ CodecIdle
    /\ DiskIdle
    /\ LedgerIdle

\* removeRecursive(path) on the root of the tree.
CallRemoveRecursive ==
    /\ walk.status = "idle"
    /\ walk' = [walk EXCEPT !.op = "removeRecursive", !.status = "running",
                            !.stack = <<Frame(RootNode)>>]

\* removeSharedRecursive(path, keep_in_remote_fs): removeMetaRecursive on the root.
CallRemoveSharedRecursive ==
    /\ walk.status = "idle"
    /\ walk' = [walk EXCEPT !.op = "removeSharedRecursive", !.status = "running",
                            !.stack = <<Frame(RootNode)>>]

\* Lines 203 / 349.
CheckStack ==
    /\ walk.status = "running" /\ Top.pc = "check"
    /\ walk' = IF EntryCheck(Len(walk.stack))
               THEN Unwound(walk, TOO_DEEP_RECURSION)
               ELSE [walk EXCEPT !.stack[Len(walk.stack)].pc = "test"]

\* Lines 206-208 / 352-354: the path is a file; it is removed and the call returns.
RemoveLeaf ==
    /\ walk.status = "running" /\ Top.pc = "test"
    /\ isFileNode(walk.tree, Top.node)
    /\ walk' = Returned([walk EXCEPT !.tree[Top.node] = AbsentNode])

\* Lines 212 / 358: iterateDirectory(path) begins.
OpenDirectory ==
    /\ walk.status = "running" /\ Top.pc = "test"
    /\ ~isFileNode(walk.tree, Top.node)
    /\ walk' = [walk EXCEPT !.stack[Len(walk.stack)].pc = "iterate",
                            !.stack[Len(walk.stack)].todo =
                                Kids(walk.tree, Resolve(walk.tree, Top.node))]

\* Lines 212-213 / 358-359: the recursive call on the next entry, in whatever
\* order the directory lists its entries.
Descend(m) ==
    /\ walk.status = "running" /\ Top.pc = "iterate"
    /\ m \in Top.todo
    /\ walk' = [walk EXCEPT !.stack = Append([walk.stack EXCEPT ![Len(walk.stack)].todo = @ \ {m}],
                                             Frame(m))]

\* Lines 214 / 360: file.remove() after the loop, which fails on a directory
\* that still has entries; the call returns.
RemoveDirectory ==
    /\ walk.status = "running" /\ Top.pc = "iterate"
    /\ Top.todo = {}
    /\ walk' = IF walk.tree[Top.node].kind = "dir" /\ Kids(walk.tree, Top.node) # {}
               THEN Unwound(walk, "DIRECTORY_NOT_EMPTY")
               ELSE Returned([walk EXCEPT !.tree[Top.node] = AbsentNode])

NextWalk ==
    \/ CallRemoveRecursive /\ UNCHANGED <<codecVars, diskVars, ledgerVars>>
    \/ CallRemoveSharedRecursive /\ UNCHANGED <<codecVars, diskVars, ledgerVars>>
    \/ CheckStack /\ UNCHANGED <<codecVars, diskVars, ledgerVars>>
    \/ RemoveLeaf /\ UNCHANGED <<codecVars, diskVars, ledgerVars>>
    \/ OpenDirectory /\ UNCHANGED <<codecVars, diskVars, ledgerVars>>
    \/ \E m \in 1..MaxNodes : Descend(m) /\ UNCHANGED <<codecVars, diskVars, ledgerVars>>
    \/ RemoveDirectory /\ UNCHANGED <<codecVars, diskVars, ledgerVars>>

SpecWalk == InitWalk /\ [][NextWalk]_vars

\* The thread that runs the removal keeps running until the call ends.
SpecWalkFair == SpecWalk /\ WF_vars(NextWalk)

\* No call is past its entry beyond the depth the stack has room for; every
\* caller waits in its loop; a removal that returned normally ran on a tree
\* without a cycle and left nothing of it; the exception of the stack check
\* leaves every call.
WalkGuarded ==
    /\ walk.status \in {"idle", "running", "done", TOO_DEEP_RECURSION}
    /\ Len(walk.stack) <= MaxStackDepth + 1
    /\ \A k \in 1..Len(walk.stack) :
          /\ walk.stack[k].pc # "check" => k <= MaxStackDepth
          /\ k < Len(walk.stack) => walk.stack[k].pc = "iterate"
    /\ walk.status = "done" =>
          /\ ~Cyclic(walk.tree)
          /\ \A n \in 1..MaxNodes : walk.tree[n].kind = "absent"
    /\ walk.status = TOO_DEEP_RECURSION => walk.stack = <<>>

WalkEnded == walk.status \in {"done", TOO_DEEP_RECURSION}

\* C14: removeRecursive and removeSharedRecursive always end; on a tree with a
\* cycle through a symbolic link they end with the exception of checkStackSize,
\* never normally; the check is made on entry to every call, so that no call
\* runs deeper than the stack has room for.
C14_CycleGuard ==
    /\ []WalkGuarded
    /\ (walk.status = "running") ~> WalkEnded
    /\ (walk.status = "running" /\ Cyclic(walk.tree)) ~> (walk.status = TOO_DEEP_RECURSION)

\* The removal of a tree with a file, a directory and, inside that directory,
\* a link back to the root ended with the exception of the stack check after
\* the file was removed.
C14_Witness ==
    /\ walk.status = TOO_DEEP_RECURSION
    /\ walk.op = "removeRecursive"
    /\ \E d \in 1..MaxNodes, l \in 1..MaxNodes :
          /\ d # RootNode /\ walk.tree[d].kind = "dir"
          /\ walk.tree[l].kind = "link" /\ walk.tree[l].parent = d
          /\ walk.tree[l].target = RootNode
    /\ \E n \in 1..MaxNodes : walk.tree[n].kind = "absent"

-----------------------------------------------------------------------------
(***************************************************************************)
(* SpecReserve: the ledger when every reservation is taken through reserve *)
(***************************************************************************)

\* The calls of SpecLedger without the bare tryReserve.
NextReserve ==
    \/ \E t \in Threads, bytes \in Word :
          CallReserve(t, bytes) /\ UNCHANGED <<codecVars, diskVars, walkVars>>
    \/ \E t \in Threads : TrZero(t) /\ UNCHANGED <<codecVars, diskVars, walkVars>>
    \/ \E t \in Threads : TrQuery(t) /\ UNCHANGED <<codecVars, diskVars, walkVars>>
    \/ \E t \in Threads : TrRead(t) /\ UNCHANGED <<codecVars, diskVars, walkVars>>
    \/ \E t \in Threads : TrWrite(t) /\ UNCHANGED <<codecVars, diskVars, walkVars>>
    \/ \E t \in Threads : TrUnlock(t) /\ UNCHANGED <<codecVars, diskVars, walkVars>>
    \/ \E t \in Threads, new_size \in Word :
          CallUpdate(t, new_size) /\ UNCHANGED <<codecVars, diskVars, walkVars>>
    \/ \E t \in Threads : UpSub(t) /\ UNCHANGED <<codecVars, diskVars, walkVars>>
    \/ \E t \in Threads : UpAdd(t) /\ UNCHANGED <<codecVars, diskVars, walkVars>>
    \/ \E t \in Threads : UpUnlock(t) /\ UNCHANGED <<codecVars, diskVars, walkVars>>
    \/ \E t \in Threads : CallRelease(t) /\ UNCHANGED <<codecVars, diskVars, walkVars>>
    \/ \E t \in Threads : RelBytes(t) /\ UNCHANGED <<codecVars, diskVars, walkVars>>
    \/ \E t \in Threads : RelCount(t) /\ UNCHANGED <<codecVars, diskVars, walkVars>>
    \/ \E t \in Threads : RelUnlock(t) /\ UNCHANGED <<codecVars, diskVars, walkVars>>
    \/ \E t \in Threads : BeginWrite(t) /\ UNCHANGED <<codecVars, diskVars, walkVars>>
    \/ \E t \in Threads : EndWrite(t) /\ UNCHANGED <<codecVars, diskVars, walkVars>>
    \/ \E v \in Word : SetAvailable(v) /\ UNCHANGED <<codecVars, diskVars, walkVars>>

SpecReserve == InitLedger /\ [][NextReserve]_vars

\* The bytes of reserved_bytes that thread t's handle, or its call in progress,
\* accounts for: a handle counts with its size; inside update the old size is
\* out after line 230 and the new one in after line 232; inside the destructor
\* the size is out after lines 241-249; a reserve counts once tryReserve has
\* added its bytes.
OwedBytes(h) ==
    CASE h.pc \in {"up_add", "rel_count", "rel_unlock"} -> 0
      [] h.pc = "tr_unlock" -> IF h.ok THEN h.bytes ELSE 0
      [] OTHER -> IF h.has THEN h.size ELSE 0

\* The same for reservation_count.
OwedCount(h) ==
    CASE h.pc = "rel_unlock" -> 0
      [] h.pc = "tr_unlock" -> IF h.ok THEN 1 ELSE 0
      [] OTHER -> IF h.has THEN 1 ELSE 0

RECURSIVE SumOwed(_, _, _)
SumOwed(ths, S, count) ==
    IF S = {} THEN 0
    ELSE LET t == CHOOSE x \in S : TRUE
         IN (IF count THEN OwedCount(ths[t]) ELSE OwedBytes(ths[t]))
            + SumOwed(ths, S \ {t}, count)

\* The sum of the sizes of the live handles, and their number.
LiveBytes(ths) == SumOwed(ths, Threads, FALSE)
LiveCount(ths) == SumOwed(ths, Threads, TRUE)

Balanced ==
    /\ reserved_bytes = LiveBytes(th)
    /\ reservation_count = LiveCount(th)

\* A release has taken the clamping branch (lines 243-244) or the logging
\* branch of the count (line 252).
Clamped(ths) == \E t \in Threads : ths[t].logged_bytes \/ ths[t].logged_count

\* C21 as stated: with reservations taken only through reserve, after any
\* sequence of reserve, update and release reserved_bytes is the sum of the
\* sizes of the live handles, reservation_count is their number, a failed
\* reserve leaves no handle and changes nothing, and no release takes the
\* clamping or logging branch.
C21_AlwaysBalanced ==
    /\ Balanced
    /\ ~Clamped(th)
    /\ \A t \in Threads :
          (th[t].pc = "tr_unlock" /\ ~th[t].ok) =>
              reserved_bytes = th[t].pre_r /\ reservation_count = th[t].pre_c

\* C21: with reservations taken only through reserve, the counters start
\* balanced (reserved_bytes is the sum of the sizes of the live handles,
\* reservation_count their number) and every step of reserve, update and
\* release keeps them balanced as long as the sum of the sizes after the step
\* fits the counter; from a balanced state no release takes the clamping or
\* logging branch, and a failed reserve leaves no handle and the counters as
\* they were; balanced counters with no live handle are both 0.
C21_Balanced ==
    /\ Balanced
    /\ [][ Balanced =>
             /\ LiveBytes(th') <= WordMax => Balanced'
             /\ \A t \in Threads :
                   /\ th'[t].logged_bytes => th[t].logged_bytes
                   /\ th'[t].logged_count => th[t].logged_count
                   /\ (th[t].pc = "tr_unlock" /\ ~th[t].ok) =>
                         /\ ~th'[t].has
                         /\ reserved_bytes = th[t].pre_r
                         /\ reservation_count = th[t].pre_c
             /\ (\A t \in Threads : ~th[t].has /\ th[t].pc = "idle") =>
                   reserved_bytes = 0 /\ reservation_count = 0 ]_vars

\* The last live handle, of a size above 0, has been released beside a handle
\* released before it: both counters are back at 0 and nothing was clamped.
C21_Witness ==
    \E t \in Threads :
        /\ th[t].pc = "rel_unlock" /\ th[t].size > 0
        /\ th[t].pre_r = th[t].size /\ th[t].pre_c = 1
        /\ \A u \in Threads \ {t} : th[u].pc = "idle" /\ ~th[u].has
        /\ reserved_bytes = 0 /\ reservation_count = 0
        /\ ~Clamped(th)

-----------------------------------------------------------------------------
(***************************************************************************)
(* SpecFixed: reservations of bytes > 0 against a capacity that stays put  *)
(***************************************************************************)

\* The sizes asked for: every value above 0.
PositiveBytes == Word \ {0}

\* tryReserve and reserve with bytes > 0 and the release of handles; there is
\* no update and the available space keeps its first value.
NextFixed ==
    \/ \E t \in Threads, bytes \in PositiveBytes :
          CallTryReserve(t, bytes) /\ UNCHANGED <<codecVars, diskVars, walkVars>>
    \/ \E t \in Threads, bytes \in PositiveBytes :
          CallReserve(t, bytes) /\ UNCHANGED <<codecVars, diskVars, walkVars>>
    \/ \E t \in Threads : TrQuery(t) /\ UNCHANGED <<codecVars, diskVars, walkVars>>
    \/ \E t \in Threads : TrRead(t) /\ UNCHANGED <<codecVars, diskVars, walkVars>>
    \/ \E t \in Threads : TrWrite(t) /\ UNCHANGED <<codecVars, diskVars, walkVars>>
    \/ \E t \in Threads : TrUnlock(t) /\ UNCHANGED <<codecVars, diskVars, walkVars>>
    \/ \E t \in Threads : CallRelease(t) /\ UNCHANGED <<codecVars, diskVars, walkVars>>
    \/ \E t \in Threads : RelBytes(t) /\ UNCHANGED <<codecVars, diskVars, walkVars>>
    \/ \E t \in Threads : RelCount(t) /\ UNCHANGED <<codecVars, diskVars, walkVars>>
    \/ \E t \in Threads : RelUnlock(t) /\ UNCHANGED <<codecVars, diskVars, walkVars>>

SpecFixed == InitLedger /\ [][NextFixed]_vars

\* C24: with a constant available_space and no update, after any interleaving
\* of tryReserve and reserve with bytes > 0 and of releases, at every step of
\* every call, reserved_bytes does not exceed available_space.
C24_NoOverCommit == reserved_bytes <= available_space

\* A tryReserve of bytes > 0 has been refused with the whole capacity reserved,
\* part of it by the other thread's handle, after this thread released a handle
\* of its own.
C24_Witness ==
    \E t \in Threads, u \in Threads :
        /\ t # u
        /\ th[t].pc = "tr_unlock" /\ ~th[t].ok /\ th[t].bytes > 0
        /\ th[u].has /\ th[u].size > 0 /\ th[u].size < reserved_bytes
        /\ reserved_bytes = available_space

-----------------------------------------------------------------------------
(***************************************************************************)
(* SpecRace: removeFile and createHardLink, one step at a time, run by two *)
(* threads that never work on the same local path at the same time         *)
(***************************************************************************)

\* The record of the k-th file of the initial disk: one remote object, no
\* hard link yet.
FirstRecord(k) == addObject(createMeta, ObjectPath(k), ObjectSize(k))

\* A thread outside every disk call.
Resting == [pc |-> "idle", op |-> "none", path |-> "a", dst |-> "a", ino |-> 0, m |-> createMeta]

\* What has happened so far: a call began on a record another call was
\* working on; a call was abandoned between the save of a decremented
\* ref_count and the removal of the path; the objects purged; an object was
\* purged a second time.
NoHistory == [overlap |-> FALSE, torn |-> FALSE, purged |-> {}, twice |-> FALSE]

\* The local paths a running call works on.
PathsInUse(h) ==
    IF h.pc = "idle" THEN {}
    ELSE IF h.op = "createHardLink" THEN {h.path, h.dst} ELSE {h.path}

\* The callers' discipline: no two calls on the same local path overlap.
PathFree(t, p) == \A u \in Threads \ {t} : p \notin PathsInUse(th[u])

\* Another thread's call is in progress on the record (the inode) i.
RecordInUse(t, i) == \E u \in Threads \ {t} : th[u].pc # "idle" /\ th[u].ino = i

SetDisk(d) == fs' = d.fs /\ inode' = d.inode /\ remote' = d.remote

\* ---- removeFile(path): removeMeta(path, false)

\* Lines 156-161: the path is a file.
BeginRemoveFile(t, p) ==
    /\ th[t].pc = "idle"
    /\ isFile(Cur, p)
    /\ PathFree(t, p)
    /\ th' = [th EXCEPT ![t] = [Resting EXCEPT !.pc = "rm_load", !.op = "removeFile",
                                               !.path = p, !.ino = fs[p].ino]]
    /\ last' = [last EXCEPT !.overlap = last.overlap \/ RecordInUse(t, fs[p].ino)]
    /\ UNCHANGED <<fs, inode, remote>>

\* Lines 165-168: the record is loaded; the branch is chosen from the loaded
\* copy; a load that throws UNKNOWN_FORMAT leads to the removal of line 193.
RmLoad(t) ==
    /\ th[t].pc = "rm_load"
    /\ LET m == readMeta(Cur, th[t].path)
       IN  th' = [th EXCEPT ![t].m = m,
                            ![t].pc = IF m.ok /\ ~IsSoleReference(m) THEN "rm_save"
                                      ELSE "rm_unlink"]
    /\ UNCHANGED <<fs, inode, remote, last>>

\* Lines 177-178: --metadata.ref_count; metadata.save(), of the copy loaded.
RmSave(t) ==
    /\ th[t].pc = "rm_save"
    /\ SetDisk(WriteFileBytes(Cur, th[t].path, SaveMetadata(DecrementedRefCount(th[t].m))))
    /\ th' = [th EXCEPT ![t].pc = "rm_unlink"]
    /\ UNCHANGED last

\* Lines 170, 179, 193: file.remove(); after it only the sole-reference branch
\* goes on, to the purge of line 173.
RmUnlink(t) ==
    /\ th[t].pc = "rm_unlink"
    /\ SetDisk(Unlink(Cur, th[t].path))
    /\ th' = [th EXCEPT ![t] = IF th[t].m.ok /\ IsSoleReference(th[t].m) /\ DeletesRemote(FALSE)
                               THEN [th[t] EXCEPT !.pc = "rm_purge"]
                               ELSE Resting]
    /\ UNCHANGED last

\* Line 173: removeFromRemoteFS(metadata), every delete succeeding.
RmPurge(t) ==
    /\ th[t].pc = "rm_purge"
    /\ LET out == removeFromRemoteFS(Cur, th[t].m, Len(th[t].m.objs))
           objs == SeqRange(out.deletes)
       IN  /\ SetDisk(out.d)
           /\ last' = [last EXCEPT !.purged = last.purged \cup objs,
                                   !.twice = last.twice \/ objs \cap last.purged # {}]
    /\ th' = [th EXCEPT ![t] = Resting]

\* ---- createHardLink(src_path, dst_path) to a path where nothing exists

BeginCreateHardLink(t, src, dst) ==
    /\ th[t].pc = "idle"
    /\ isFile(Cur, src) /\ ~exists(Cur, dst)
    /\ PathFree(t, src) /\ PathFree(t, dst)
    /\ LET m == readMeta(Cur, src) IN m.ok => m.rc < MaxRefCount
    /\ th' = [th EXCEPT ![t] = [Resting EXCEPT !.pc = "hl_load", !.op = "createHardLink",
                                               !.path = src, !.dst = dst, !.ino = fs[src].ino]]
    /\ last' = [last EXCEPT !.overlap = last.overlap \/ RecordInUse(t, fs[src].ino)]
    /\ UNCHANGED <<fs, inode, remote>>

\* Line 435: auto src = readMeta(src_path); a load that throws ends the call.
HlLoad(t) ==
    /\ th[t].pc = "hl_load"
    /\ LET m == readMeta(Cur, th[t].path)
       IN  th' = [th EXCEPT ![t] = IF m.ok THEN [th[t] EXCEPT !.m = m, !.pc = "hl_save"]
                                   ELSE Resting]
    /\ UNCHANGED <<fs, inode, remote, last>>

\* Lines 436-437: ++src.ref_count; src.save(), of the copy loaded.
HlSave(t) ==
    /\ th[t].pc = "hl_save"
    /\ SetDisk(WriteFileBytes(Cur, th[t].path, SaveMetadata(IncrementedRefCount(th[t].m))))
    /\ th' = [th EXCEPT ![t].pc = "hl_link"]
    /\ UNCHANGED last

\* Line 440: DB::createHardLink.
HlLink(t) ==
    /\ th[t].pc = "hl_link"
    /\ SetDisk(createHardLinkFS(Cur, th[t].path, th[t].dst).d)
    /\ th' = [th EXCEPT ![t] = Resting]
    /\ UNCHANGED last

\* The disk at the start: a file at "a" and perhaps one at "b", each with one
\* remote object and no hard link.
InitRace ==
    /\ \E second \in BOOLEAN :
          /\ fs = [p \in AllPaths |->
                     IF p = "a" THEN FileEntry(1)
                     ELSE IF p = "b" /\ second THEN FileEntry(2) ELSE AbsentEntry]
          /\ inode = [i \in Inodes |->
                        IF i = 1 \/ (i = 2 /\ second) THEN SaveMetadata(FirstRecord(i)) ELSE <<>>]
          /\ remote = {ObjectPath(i) : i \in IF second THEN {1, 2} ELSE {1}}
    /\ written = MaxWritten
    /\ last = NoHistory
    /\ th = [t \in Threads |-> Resting]
    /\ reserved_bytes = 0 /\ reservation_count = 0 /\ available_space = 0
    /\ mutex = "free" /\ serial = <<>>
    /\ CodecIdle
    /\ WalkIdle

raceFrame == <<codecVars, written, reserved_bytes, reservation_count, available_space,
               mutex, serial, walkVars>>

NextRace ==
    \/ \E t \in Threads, p \in Paths : BeginRemoveFile(t, p) /\ UNCHANGED raceFrame
    \/ \E t \in Threads : RmLoad(t) /\ UNCHANGED raceFrame
    \/ \E t \in Threads : RmSave(t) /\ UNCHANGED raceFrame
    \/ \E t \in Threads : RmUnlink(t) /\ UNCHANGED raceFrame
    \/ \E t \in Threads : RmPurge(t) /\ UNCHANGED raceFrame
    \/ \E t \in Threads, src \in Paths, dst \in Paths :
          BeginCreateHardLink(t, src, dst) /\ UNCHANGED raceFrame
    \/ \E t \in Threads : HlLoad(t) /\ UNCHANGED raceFrame
    \/ \E t \in Threads : HlSave(t) /\ UNCHANGED raceFrame
    \/ \E t \in Threads : HlLink(t) /\ UNCHANGED raceFrame

SpecRace == InitRace /\ [][NextRace]_vars

\* The remote objects the record at p lists.
ObjectsAt(d, p) == SeqRange(PathsOf(readMeta(d, p).objs))

\* The path is being removed by a removeFile in progress.
InRemoval(p) == \E t \in Threads : th[t].op = "removeFile" /\ th[t].path = p

\* No local path, other than one in removal, lists an object missing from the
\* remote store.
NoneDangling ==
    \A p \in Paths : (isFile(Cur, p) /\ ~InRemoval(p)) => ObjectsAt(Cur, p) \subseteq remote

\* No call is in progress.
Quiescent == \A t \in Threads : th[t].pc = "idle"

\* Every object in the remote store is listed at some local path.
NoneLeaked == \A o \in remote : \E p \in Paths : isFile(Cur, p) /\ o \in ObjectsAt(Cur, p)

\* Every record's ref_count is the number of its local paths less one.
CountsExact ==
    \A p \in Paths : isFile(Cur, p) =>
        readMeta(Cur, p).rc = Cardinality(LinksOf(fs, fs[p].ino)) - 1

Accounted ==
    /\ NoneDangling
    /\ ~last.twice
    /\ Quiescent => NoneLeaked /\ CountsExact

\* C22 as stated: with calls serialised per local path, removeFile and
\* createHardLink on different paths interleaved in any way keep the
\* accounting consistent even when the paths are hard links of one record:
\* no object is purged while a path lists it, none is purged twice, and once
\* the calls have returned every ref_count is the number of links less one
\* and the objects of a record with no path left are purged.
C22_PerPathSuffices == Accounted

\* C22: with calls serialised per local path, removeFile and createHardLink
\* interleaved in any way keep the accounting consistent (no object purged
\* while a path lists it, none purged twice, and after the calls returned
\* every ref_count is the number of links less one and nothing is left in the
\* remote store that no path lists) as long as no call began on a record that
\* another call, through another of its hard links, was working on.
C22_PerRecordSuffices == ~last.overlap => Accounted

\* A removeFile of the last path of one record has purged its objects while a
\* createHardLink on the other record is between its save and its link.
C22_Witness ==
    \E t \in Threads, u \in Threads :
        /\ ~last.overlap
        /\ th[t].pc = "hl_link" /\ th[u].pc = "idle"
        /\ last.purged # {} /\ remote # {}
        /\ Accounted

-----------------------------------------------------------------------------
(***************************************************************************)
(* SpecSteps: one caller's removeFile and createHardLink, one step at a    *)
(* time, where a call may stop between any two of its steps                *)
(***************************************************************************)

Caller == "t1"

\* The call is between the save of the decremented ref_count (line 178) and
\* the removal of its path (line 179).
AfterDecrement(h) == h.pc = "rm_unlink" /\ h.m.ok /\ ~IsSoleReference(h.m)

\* The call goes no further: the process stops, or the next step (the save,
\* the link, the removal, the purge) throws.
Stop(t) ==
    /\ th[t].pc # "idle"
    /\ th' = [th EXCEPT ![t] = Resting]
    /\ last' = [last EXCEPT !.torn = last.torn \/ AfterDecrement(th[t])]
    /\ UNCHANGED <<fs, inode, remote>>

NextSteps ==
    \/ \E p \in Paths : BeginRemoveFile(Caller, p) /\ UNCHANGED raceFrame
    \/ RmLoad(Caller) /\ UNCHANGED raceFrame
    \/ RmSave(Caller) /\ UNCHANGED raceFrame
    \/ RmUnlink(Caller) /\ UNCHANGED raceFrame
    \/ RmPurge(Caller) /\ UNCHANGED raceFrame
    \/ \E src \in Paths, dst \in Paths :
          BeginCreateHardLink(Caller, src, dst) /\ UNCHANGED raceFrame
    \/ HlLoad(Caller) /\ UNCHANGED raceFrame
    \/ HlSave(Caller) /\ UNCHANGED raceFrame
    \/ HlLink(Caller) /\ UNCHANGED raceFrame
    \/ Stop(Caller) /\ UNCHANGED raceFrame

SpecSteps == InitRace /\ [][NextSteps]_vars

\* The persisted ref_count of the record at p, less the number of local paths
\* linked to it.
CountOverLinks(p) == readMeta(Cur, p).rc - Cardinality(LinksOf(fs, fs[p].ino))

\* C23 as stated: at every intermediate point of createHardLink and of
\* removeFile, and after a call that stopped at one, the persisted ref_count
\* of every record is at least the number of local paths linked to it less
\* one, and no path lists an object that was purged.
C23_NeverTooLow ==
    /\ \A p \in Paths : isFile(Cur, p) => CountOverLinks(p) >= -1
    /\ NoneDangling

\* C23: as long as no removeFile has stopped between its save of the
\* decremented ref_count and the removal of its path, the persisted ref_count
\* of a record is at least the number of local paths linked to it less one at
\* every intermediate point of createHardLink and of removeFile, and no path
\* lists a purged object, except between those two steps of a removeFile of a
\* shared record, where it is the count loaded less one, which is the number
\* of those paths less two unless an earlier createHardLink stopped and left
\* the count too high.
C23_TooLowOnlyInRemoval ==
    ~last.torn =>
        /\ \A p \in Paths : isFile(Cur, p) =>
              IF AfterDecrement(th[Caller]) /\ th[Caller].ino = fs[p].ino
              THEN /\ readMeta(Cur, p).rc = th[Caller].m.rc - 1
                   /\ CountOverLinks(p) >= -2
              ELSE CountOverLinks(p) >= -1
        /\ NoneDangling

\* A createHardLink stopped between its save and its link, and a later
\* removeFile of the last path of that record is past its save: the count was
\* one too high, never too low.
C23_Witness ==
    /\ ~last.torn
    /\ AfterDecrement(th[Caller])
    /\ isFile(Cur, th[Caller].path)
    /\ Cardinality(LinksOf(fs, th[Caller].ino)) = 1
    /\ CountOverLinks(th[Caller].path) = -1

-----------------------------------------------------------------------------
(***************************************************************************)
(* SpecTree: removeRecursive and removeSharedRecursive on a local tree     *)
(* without links, whose files hold metadata records                        *)
(***************************************************************************)

\* The local path of the entry n of the tree.
NodePath(n) == PathOrder[n]

TreeNodes == 1..Len(PathOrder)

\* The trees without a symbolic link.
PlainTrees == {t \in TreesOf(Len(PathOrder)) : ~Cyclic(t)}

\* What a file of the tree holds at the start: the "sole" reference to a
\* record, a "shared" record, or a "corrupt" metadata file.
Holdings == {"sole", "shared", "corrupt"}

FileNodes(t) == {n \in TreeNodes : t[n].kind = "file"}

\* The inode of the file n: with twins, the shared files of the tree are hard
\* links of one record; without, each shared file has its other link outside
\* the tree.
InodeOf(t, holds, twins, n) ==
    IF twins /\ holds[n] = "shared"
    THEN CHOOSE i \in FileNodes(t) :
            holds[i] = "shared" /\ \A j \in FileNodes(t) : holds[j] = "shared" => i <= j
    ELSE n

SharedCount(t, holds, twins) ==
    IF twins THEN Cardinality({n \in FileNodes(t) : holds[n] = "shared"}) - 1 ELSE 1

BytesOf(t, holds, twins, i) ==
    IF holds[i] = "corrupt" THEN DamagedBytes(<<>>, "version")
    ELSE IF holds[i] = "sole" THEN SaveMetadata(FirstRecord(i))
    ELSE SaveMetadata([FirstRecord(i) EXCEPT !.rc = SharedCount(t, holds, twins)])

\* removeRecursive passes every file to removeFile(path), which keeps nothing
\* (line 354); removeSharedRecursive passes its keep_in_remote_fs on (lines
\* 207 and 335).
KeepsRemoteNever(w) == FALSE

KeepsRemote(w) == w.op = "removeSharedRecursive" /\ w.keep

InitTree ==
    /\ \E t \in PlainTrees, holds \in [TreeNodes -> Holdings], twins \in BOOLEAN,
          keep \in BOOLEAN :
          /\ \A n \in TreeNodes \ FileNodes(t) : holds[n] = "sole"
          /\ walk = [op |-> "none", tree |-> t, stack |-> <<>>, status |-> "idle",
                     keep |-> keep]
          /\ fs = [p \in AllPaths |->
                     LET n == PathIndex(p)
                     IN  IF t[n].kind = "file" THEN FileEntry(InodeOf(t, holds, twins, n))
                         ELSE IF t[n].kind = "dir" THEN DirEntry ELSE AbsentEntry]
          /\ inode = [i \in Inodes |->
                        IF i \in FileNodes(t) /\ InodeOf(t, holds, twins, i) = i
                        THEN BytesOf(t, holds, twins, i) ELSE <<>>]
          /\ remote = {ObjectPath(i) : i \in {n \in FileNodes(t) : holds[n] # "corrupt"}}
          /\ last = [start |-> t, events |-> <<>>]
    /\ written = 0
    /\ CodecIdle
    /\ LedgerIdle

\* Lines 206-208 / 352-354: the path is a file; removeMeta removes it (every
\* remote delete succeeding) and the call returns.
RemoveTreeFile ==
    /\ walk.status = "running" /\ Top.pc = "test"
    /\ isFileNode(walk.tree, Top.node)
    /\ LET p == NodePath(Top.node)
           out == removeMeta(Cur, p, KeepsRemote(walk), Len(readMeta(Cur, p).objs))
       IN  /\ SetDisk(out.d)
           /\ last' = [last EXCEPT !.events =
                          Append(@, [node |-> Top.node, kind |-> "file",
                                     found |-> Found(Cur, p),
                                     listed |-> PathsOf(readMeta(Cur, p).objs),
                                     deletes |-> out.deletes])]
           /\ walk' = IF out.err = ""
                      THEN Returned([walk EXCEPT !.tree[Top.node] = AbsentNode])
                      ELSE Unwound(walk, out.err)

\* Lines 214 / 360: file.remove() on the directory after the loop.
RemoveTreeDirectory ==
    /\ RemoveDirectory
    /\ fs' = IF walk'.status \in {"running", "done"}
             THEN [fs EXCEPT ![NodePath(Top.node)] = AbsentEntry] ELSE fs
    /\ last' = [last EXCEPT !.events =
                   Append(@, [node |-> Top.node, kind |-> "dir",
                              found |-> "dir", listed |-> <<>>, deletes |-> <<>>])]
    /\ UNCHANGED <<inode, remote>>

treeFrame == <<codecVars, written, ledgerVars>>

NextTree ==
    \/ CallRemoveRecursive /\ UNCHANGED <<treeFrame, fs, inode, remote, last>>
    \/ CallRemoveSharedRecursive /\ UNCHANGED <<treeFrame, fs, inode, remote, last>>
    \/ CheckStack /\ UNCHANGED <<treeFrame, fs, inode, remote, last>>
    \/ RemoveTreeFile /\ UNCHANGED treeFrame
    \/ OpenDirectory /\ UNCHANGED <<treeFrame, fs, inode, remote, last>>
    \/ \E m \in TreeNodes : Descend(m) /\ UNCHANGED <<treeFrame, fs, inode, remote, last>>
    \/ RemoveTreeDirectory /\ UNCHANGED treeFrame

SpecTree == InitTree /\ [][NextTree]_vars

\* What a step of the removal does to the call stack and the tree, whatever it
\* does to the metadata files and the remote store.
WalkStep ==
    \/ CallRemoveRecursive
    \/ CallRemoveSharedRecursive
    \/ CheckStack
    \/ RemoveLeaf
    \/ OpenDirectory
    \/ \E m \in TreeNodes : Descend(m)
    \/ RemoveDirectory

\* The thread that runs the removal keeps running until the call ends.
SpecTreeFair == SpecTree /\ WF_walk(WalkStep)

\* The entries of the tree at the start.
Present == {n \in TreeNodes : last.start[n].kind # "absent"}

\* The position in the sequence of removals at which the entry n was removed
\* (0: not yet).
RemovedAt(n) ==
    IF \E k \in 1..Len(last.events) : last.events[k].node = n
    THEN CHOOSE k \in 1..Len(last.events) : last.events[k].node = n
    ELSE 0

TreeRemoved ==
    \* no entry is removed twice, and only entries of the tree are removed
    /\ \A j \in 1..Len(last.events), k \in 1..Len(last.events) :
          last.events[j].node = last.events[k].node => j = k
    /\ \A k \in 1..Len(last.events) :
          LET e == last.events[k]
          IN  /\ e.node \in Present
              /\ e.kind = last.start[e.node].kind
              \* remote deletes only for a record whose ref_count was 0, and
              \* never when keep_remote_data is set
              /\ e.deletes # <<>> => e.found = "sole"
              /\ (walk.op = "removeSharedRecursive" /\ walk.keep) => e.deletes = <<>>
              /\ (e.found = "sole" /\ ~(walk.op = "removeSharedRecursive" /\ walk.keep)) =>
                    /\ e.deletes = e.listed /\ e.listed # <<>>
                    /\ SeqRange(e.deletes) \cap remote = {}
              \* a directory goes after everything in it
              /\ e.kind = "dir" =>
                    \A m \in Present \ {RootNode} :
                        last.start[m].parent = e.node =>
                            RemovedAt(m) # 0 /\ RemovedAt(m) < k
    \* the removal never throws
    /\ walk.status \in {"idle", "running", "done"}
    \* when it has returned, nothing of the tree is left
    /\ walk.status = "done" =>
          /\ \A n \in TreeNodes : walk.tree[n].kind = "absent" /\ ~exists(Cur, NodePath(n))
          /\ \A n \in Present : RemovedAt(n) # 0

\* C25: removeRecursive (and removeSharedRecursive) on a tree without links
\* whose files hold readable or corrupt records, every remote delete
\* succeeding, runs to its normal return, after which the root and everything
\* below it is absent; every file was removed once, by removeMeta: remote
\* deletes were issued only for records loaded with ref_count 0, for every
\* object listed, and none when keep_in_remote_fs was set; every directory was
\* removed after all of its entries.
C25_TreeRemoval ==
    /\ []TreeRemoved
    /\ (walk.status = "running") ~> (walk.status = "done")

\* A removeRecursive has returned from a tree of two directories, one in the
\* other, and two files: one held a corrupt record, the other the last link of
\* a record, whose object was purged.
C25_Witness ==
    /\ walk.status = "done" /\ walk.op = "removeRecursive"
    /\ Len(last.events) = Len(PathOrder)
    /\ \E k \in 1..Len(last.events) :
          last.events[k].kind = "dir" /\ last.events[k].node # RootNode
    /\ \E k \in 1..Len(last.events) : last.events[k].found = "unreadable"
    /\ \E k \in 1..Len(last.events) : last.events[k].deletes # <<>>
    /\ remote = {}

=============================================================================
